---- MODULE Spec2Model ----
(***************************************************************************)
(* A model of the palletizer registry engine: the per-crate index files,   *)
(* the crate blob store, the git repository of the index and the publish,  *)
(* yank and unyank operations of src/src/registry.rs, executed step by     *)
(* step by several callers that share one registry root.                   *)
(***************************************************************************)
EXTENDS Naturals, Sequences, FiniteSets, TLC

\* ------------------------------------------------------------------ bounds

\* Number of callers (each one its own process with its own Registry value).
NumWorkers == 2
\* Number of crate names, versions and package contents the callers use.
NumNames == 2
NumVersions == 2
NumSalts == 2
\* Total number of calls started, and of environment failures injected.
MaxCalls == 3
MaxFaults == 1
\* Number of characters of the names handed to the path resolver.
MaxNameChars == 4
\* Number of bytes of the crate data of the request bodies handed to the parser.
MaxBlobLen == 2

Workers == 1..NumWorkers

\* ------------------------------------------------------------------ names

\* A crate name is a str: the bytes of its UTF-8 encoding. Utf8 is the
\* encoding of one character (code points below 0x800).
Utf8(c) == IF c < 128 THEN << c >> ELSE << 192 + (c \div 64), 128 + (c % 64) >>

\* "foo", "ab", "Foo", "Abcd"
AllNames == << <<102, 111, 111>>, <<97, 98>>, <<70, 111, 111>>, <<65, 98, 99, 100>> >>
Min(a, b) == IF a <= b THEN a ELSE b
CrateNames == { AllNames[i] : i \in 1..Min(NumNames, Len(AllNames)) }

AllVersions == << "0.1.0", "0.2.0", "0.3.0" >>
Versions == { AllVersions[i] : i \in 1..Min(NumVersions, Len(AllVersions)) }

Salts == 1..NumSalts

\* u8::make_ascii_lowercase on one byte.
AsciiLower(c) == IF c \in 65..90 THEN c + 32 ELSE c

\* str::make_ascii_lowercase
make_ascii_lowercase(s) == [i \in 1..Len(s) |-> AsciiLower(s[i])]

\* `a as char` of a byte a, as format! writes it: the character with the
\* code point a, in UTF-8.
AsChar(a) == Utf8(a)

\* Registry::index_path_rel panics on the empty name.
index_path_rel_panics(name) == Len(name) = 0

\* Registry::index_path_rel of a name that is not empty: the relative path
\* of the crate's index file, as the bytes of the string ("1" is 49, "2" 50,
\* "3" 51 and "/" 47).
index_path_rel(name) ==
    LET n == Len(name)
        file == CASE n = 1 -> << 49, 47 >> \o name
                  [] n = 2 -> << 50, 47 >> \o name
                  [] n = 3 -> << 51, 47 >> \o AsChar(name[1]) \o << 47 >> \o name
                  [] OTHER -> AsChar(name[1]) \o AsChar(name[2]) \o << 47 >>
                                \o AsChar(name[3]) \o AsChar(name[4]) \o << 47 >> \o name
    IN  make_ascii_lowercase(file)

\* Registry::crate_path_rel: <crate_dir>/<name>/<name>-<version>.crate
crate_path_rel(name, version) == << name, version >>

IndexPaths == { index_path_rel(n) : n \in CrateNames }
CratePaths == { crate_path_rel(n, v) : n \in CrateNames, v \in Versions }

\* ------------------------------------------------------------------ crates

\* config.allowed_registries is one of these two lists (src/src/config.rs).
CratesIo == "https://github.com/rust-lang/crates.io-index"
OtherRegistry == "http://other"

\* A packaged crate (the bytes handed to publish): the package it was built
\* from and a salt that distinguishes different contents of one package.
Tarball(n, v, s) == [pkg |-> n, ver |-> v, salt |-> s]
Tarballs == { Tarball(n, v, s) : n \in CrateNames, v \in Versions, s \in Salts }

\* util::compute_sha256_hex, as a collision-free digest of the bytes.
compute_sha256_hex(data) == [sha256 |-> data]

\* The dependency tables of the manifest inside a tarball: contents 1 has no
\* dependency, contents 2 depends on a crates.io package, any further
\* contents on a package of another registry.
ManifestDependencies(data) ==
    CASE data.salt <= 1 -> << >>
      [] data.salt = 2 ->
            << [name |-> "serde", version |-> "1.0", optional |-> FALSE,
                features |-> << >>, default_features |-> TRUE,
                registry |-> << CratesIo >>, package |-> << >>] >>
      [] OTHER ->
            << [name |-> "left", version |-> "0.1", optional |-> FALSE,
                features |-> << >>, default_features |-> TRUE,
                registry |-> << OtherRegistry >>, package |-> << >>] >>

\* manifest::extract: the manifest found in the archive.
extract(data) ==
    [package |-> [name |-> data.pkg, version |-> data.ver],
     links |-> << >>, features |-> << >>,
     dependencies |-> ManifestDependencies(data)]

\* index::add_deps for one manifest table.
add_deps(deps, kind, target) ==
    [i \in 1..Len(deps) |->
        [name |-> deps[i].name, version |-> deps[i].version,
         optional |-> deps[i].optional, features |-> deps[i].features,
         default_features |-> deps[i].default_features,
         target |-> target, kind |-> kind,
         registry |-> deps[i].registry, package |-> deps[i].package]]

\* index::Entry::from_manifest
from_manifest(manifest, checksum_sha256) ==
    [name |-> manifest.package.name,
     version |-> manifest.package.version,
     dependencies |-> add_deps(manifest.dependencies, "normal", << >>),
     checksum_sha256 |-> checksum_sha256,
     features |-> manifest.features,
     yanked |-> FALSE,
     links |-> manifest.links]

\* NewCrateDependency::into_index_dependency and NewCrateMeta::into_index_entry
\* of the HTTP publish handler: the wire metadata of a package, as cargo sends
\* it, turned into an index entry.
NewCrateMeta(data) ==
    [name |-> data.pkg, version |-> data.ver,
     dependencies |->
        [i \in 1..Len(ManifestDependencies(data)) |->
            LET d == ManifestDependencies(data)[i]
            IN  [name |-> d.name, version |-> d.version, features |-> d.features,
                 optional |-> d.optional, default_features |-> d.default_features,
                 target |-> << >>, kind |-> "normal", registry |-> d.registry,
                 explicit_name_in_toml |-> << >>]],
     features |-> << >>, links |-> << >>]

\* A conversion that keeps the wire meaning of the name.
into_index_dependency_unswapped(d) ==
    [name |-> d.name,
     version |-> d.version, features |-> d.features, optional |-> d.optional,
     default_features |-> d.default_features, target |-> d.target, kind |-> d.kind,
     registry |-> d.registry,
     package |-> d.explicit_name_in_toml]

into_index_dependency(d) ==
    [name |-> IF d.explicit_name_in_toml # << >> THEN d.explicit_name_in_toml[1] ELSE d.name,
     version |-> d.version, features |-> d.features, optional |-> d.optional,
     default_features |-> d.default_features, target |-> d.target, kind |-> d.kind,
     registry |-> d.registry,
     package |-> IF d.explicit_name_in_toml # << >> THEN << d.name >> ELSE << >>]

into_index_entry(meta, crate_sha256) ==
    [name |-> meta.name,
     version |-> meta.version,
     dependencies |-> [i \in 1..Len(meta.dependencies) |->
                          into_index_dependency(meta.dependencies[i])],
     checksum_sha256 |-> crate_sha256,
     features |-> meta.features,
     yanked |-> FALSE,
     links |-> meta.links]

\* ------------------------------------------------------------------ index lines

\* serde_json::to_string of an index::Dependency: the fields in declaration
\* order under their serialized names.
DependencyToJson(d) ==
    << <<"name", d.name>>, <<"version_req", d.version>>, <<"features", d.features>>,
       <<"optional", d.optional>>, <<"default_features", d.default_features>>,
       <<"target", d.target>>, <<"kind", d.kind>>, <<"registry", d.registry>>,
       <<"package", d.package>> >>

\* serde_json::to_string of an index::Entry.
EntryToJson(e) ==
    << <<"name", e.name>>, <<"vers", e.version>>,
       <<"deps", [i \in 1..Len(e.dependencies) |-> DependencyToJson(e.dependencies[i])]>>,
       <<"cksum", e.checksum_sha256>>, <<"features", e.features>>,
       <<"yanked", e.yanked>>, <<"links", e.links>> >>

JsonKeys(obj) == { obj[i][1] : i \in 1..Len(obj) }
JsonGet(obj, key) == obj[CHOOSE i \in 1..Len(obj) : obj[i][1] = key][2]

DependencyKeys ==
    {"name", "version_req", "features", "optional", "default_features",
     "target", "kind", "registry", "package"}
EntryKeys == {"name", "vers", "deps", "cksum", "features", "yanked", "links"}

\* serde_json::from_str::<Dependency> (deny_unknown_fields).
DependencyParses(obj) == Len(obj) = Cardinality(DependencyKeys) /\ JsonKeys(obj) = DependencyKeys
DependencyFromJson(obj) ==
    [name |-> JsonGet(obj, "name"), version |-> JsonGet(obj, "version_req"),
     features |-> JsonGet(obj, "features"), optional |-> JsonGet(obj, "optional"),
     default_features |-> JsonGet(obj, "default_features"),
     target |-> JsonGet(obj, "target"), kind |-> JsonGet(obj, "kind"),
     registry |-> JsonGet(obj, "registry"), package |-> JsonGet(obj, "package")]

\* Entry::from_json: whether a line parses, and the entry it parses to.
EntryParses(line) ==
    /\ Len(line) = Cardinality(EntryKeys)
    /\ JsonKeys(line) = EntryKeys
    /\ \A i \in 1..Len(JsonGet(line, "deps")) : DependencyParses(JsonGet(line, "deps")[i])
from_json(line) ==
    [name |-> JsonGet(line, "name"), version |-> JsonGet(line, "vers"),
     dependencies |-> [i \in 1..Len(JsonGet(line, "deps")) |->
                          DependencyFromJson(JsonGet(line, "deps")[i])],
     checksum_sha256 |-> JsonGet(line, "cksum"), features |-> JsonGet(line, "features"),
     yanked |-> JsonGet(line, "yanked"), links |-> JsonGet(line, "links")]

\* The content of an index file is its sequence of newline-terminated lines;
\* an empty line is the empty sequence.
NonEmpty(line) == line # << >>

\* registry::read_index: split on newlines, drop the empty lines, parse the
\* rest; fails when a kept line does not parse.
RegistryReadOk(lines) == \A i \in 1..Len(lines) : NonEmpty(lines[i]) => EntryParses(lines[i])
RegistryRead(lines) ==
    LET kept == SelectSeq(lines, NonEmpty)
    IN  [i \in 1..Len(kept) |-> from_json(kept[i])]

\* index::read_index: BufRead::lines, every line parsed (an empty one fails).
IndexReadOk(lines) == \A i \in 1..Len(lines) : NonEmpty(lines[i]) /\ EntryParses(lines[i])
IndexRead(lines) == [i \in 1..Len(lines) |-> from_json(lines[i])]

\* index::write_index: one line per entry, in order.
write_index(entries) == [i \in 1..Len(entries) |-> EntryToJson(entries[i])]

\* A truncation that leaves the content (and the file pointer at its end).
truncate_nothing(lines) == lines

\* util::truncate_file: the file is empty and the file pointer at its start.
truncate_file(lines) == << >>

\* ------------------------------------------------------------------ state

VARIABLES
    allowed_registries, \* Config::allowed_registries of the registry root
    index_dir,          \* the index files of the working tree, by relative path
    crate_dir,          \* the blob files, by crate_path_rel
    head_tree,          \* the index files in the tree of the HEAD commit
    head_count,         \* the number of commits reachable from HEAD
    git_index,          \* the staged content of the index files (.git/index)
    file_lock,          \* per index file, the callers holding its exclusive lock
    pc,                 \* per caller, its position in the running operation
    call,               \* per caller, the running (or last) call and its arguments
    index,              \* per caller, the entries it read from the index file
    head,               \* per caller, the HEAD commit add_commit resolved
    mem_index,          \* per caller, the git index add_commit loaded
    result,             \* per caller, what its last call returned
    faulted,            \* per caller, whether the environment failed a step of the call
    pre,                \* per caller, what a reader saw when the call started
    prev,               \* per caller, its previous finished call
    supplied,           \* blob paths whose entry carries a checksum the caller supplied
    successes,          \* calls that returned Ok(()) or Ok(true) so far
    calls,              \* calls started so far
    faults,             \* environment failures injected so far
    registry_lock,      \* the callers holding the server's RwLock<Registry>
    seen,               \* per caller, the content its read-only call read
    input,              \* the operation and the name handed to the path resolver
    output,             \* what the path resolver did with it
    dropped,            \* per caller, where its request was when the client went away
    upload              \* the git-upload-pack request: handler, child process and pipes

vars == << allowed_registries, index_dir, crate_dir, head_tree, head_count, git_index,
           file_lock, pc, call, index, head, mem_index, result, faulted, pre, prev,
           supplied, successes, calls, faults, registry_lock, seen, input, output,
           dropped, upload >>

NoFile == [exists |-> FALSE, lines |-> << >>]
File(lines) == [exists |-> TRUE, lines |-> lines]
EmptyTree == [p \in IndexPaths |-> NoFile]

NoTarball == Tarball(<< >>, "", 0)
NoEntry == from_manifest(extract(NoTarball), compute_sha256_hex(NoTarball))
NoCall == [op |-> "none", via |-> "none", method |-> "none", name |-> << >>,
           version |-> "", metadata |-> NoEntry, data |-> NoTarball]
NoBlob == [exists |-> FALSE, bytes |-> << >>]
Blob(bytes) == [exists |-> TRUE, bytes |-> bytes]
NoPre == [file |-> NoFile, blob |-> NoBlob, head_count |-> 0, id |-> 0, busy |-> {}]
NoPrev == [call |-> NoCall, result |-> "none", before |-> NoFile]
NoInput == [op |-> "none", name |-> << >>]
NoUpload == [pc |-> "idle", body |-> 0, stdin |-> 0, stdin_open |-> FALSE, stderr |-> 0,
             stdout |-> 0, drain |-> FALSE, child |-> "none", err_left |-> 0,
             out_left |-> 0, status |-> 0, closed |-> FALSE, read |-> 0]
NoOutput == [kind |-> "none", path |-> << >>]

\* What Registry::read_index returns for a file, the missing file read as no
\* entries.
Entries(file) == IF file.exists /\ RegistryReadOk(file.lines) THEN RegistryRead(file.lines) ELSE << >>

\* The state Registry::init leaves: the configuration, an empty index whose
\* HEAD is the initial commit, no blob.
Init ==
    /\ allowed_registries \in { {}, {CratesIo} }
    /\ index_dir = EmptyTree
    /\ crate_dir = [p \in CratePaths |-> NoBlob]
    /\ head_tree = EmptyTree
    /\ head_count = 1
    /\ git_index = EmptyTree
    /\ file_lock = [p \in IndexPaths |-> {}]
    /\ pc = [w \in Workers |-> "idle"]
    /\ call = [w \in Workers |-> NoCall]
    /\ index = [w \in Workers |-> << >>]
    /\ head = [w \in Workers |-> 0]
    /\ mem_index = [w \in Workers |-> EmptyTree]
    /\ result = [w \in Workers |-> "none"]
    /\ faulted = [w \in Workers |-> FALSE]
    /\ pre = [w \in Workers |-> NoPre]
    /\ prev = [w \in Workers |-> NoPrev]
    /\ supplied = {}
    /\ successes = 0
    /\ calls = 0
    /\ faults = 0
    /\ registry_lock = {}
    /\ seen = [w \in Workers |-> << >>]
    /\ input = NoInput
    /\ output = NoOutput
    /\ dropped = [w \in Workers |-> "none"]
    /\ upload = NoUpload

\* ------------------------------------------------------------------ helpers

\* The index file and the blob file of a caller's running call.
IndexPathOf(w) == index_path_rel(call[w].name)
CratePathOf(w) == crate_path_rel(call[w].name, call[w].version)

\* The environment may fail a fallible step while failures remain.
MayFault == faults < MaxFaults

\* A lock that never waits.
LockIgnored(holders) == TRUE

\* fs2 lock_exclusive returns when no other handle holds the file's lock.
LockAvailable(holders) == holders = {}

\* A return that keeps the files of the call open.
KeepFiles(locks, w) == locks

\* The File values of a call are locals of the operation (registry.rs:80,
\* 132, 191): they are dropped when it returns, by return or by ?, which
\* closes them and releases their locks.
DropFiles(locks, w) == [p \in IndexPaths |-> locks[p] \ {w}]

\* The call returns r: its file handle is dropped, which releases the lock.
Return(w, r, isFault) ==
    /\ pc' = [pc EXCEPT ![w] = "done"]
    /\ result' = [result EXCEPT ![w] = r]
    /\ file_lock' = DropFiles(file_lock, w)
    /\ index' = [index EXCEPT ![w] = << >>]
    /\ head' = [head EXCEPT ![w] = 0]
    /\ mem_index' = [mem_index EXCEPT ![w] = EmptyTree]
    /\ faulted' = [faulted EXCEPT ![w] = faulted[w] \/ isFault]
    /\ faults' = IF isFault THEN faults + 1 ELSE faults
    /\ successes' = IF r \in {"Ok", "Ok(true)"} THEN successes + 1 ELSE successes
    /\ UNCHANGED prev

\* The call moves on to its next step.
Goto(w, next) ==
    /\ pc' = [pc EXCEPT ![w] = next]
    /\ UNCHANGED << result, faulted, faults, successes, prev >>

\* What a reader sees at the moment the call c starts as the call number id.
PreOf(c, id) ==
    [file |-> index_dir[index_path_rel(c.name)],
     blob |-> IF crate_path_rel(c.name, c.version) \in CratePaths
              THEN crate_dir[crate_path_rel(c.name, c.version)]
              ELSE NoBlob,
     head_count |-> head_count,
     id |-> id,
     busy |-> { v \in Workers : pc[v] \notin {"idle", "done"} }]

\* The call starts: what a reader sees at that moment is recorded.
Start(w, c) ==
    /\ calls < MaxCalls
    /\ pc[w] = "idle"
    /\ pc' = [pc EXCEPT ![w] = "open"]
    /\ calls' = calls + 1
    /\ call' = [call EXCEPT ![w] = c]
    /\ pre' = [pre EXCEPT ![w] = PreOf(c, calls + 1)]

FsVars == << index_dir, crate_dir, head_tree, head_count, git_index >>
PureVars == << input, output, upload >>
CallVars == << allowed_registries, calls, call, pre, registry_lock, seen, PureVars, dropped >>

LocalVars == << file_lock, index, head, mem_index >>

\* ------------------------------------------------------------------ publish

\* The entry a publish carries: add_crate derives it from the manifest in the
\* data, the HTTP handler from the wire metadata with the checksum of the
\* data, and a direct add_crate_with_metadata call passes any metadata of that
\* package along with the data.
PublishCall(via, data, meta) ==
    LET e == CASE via = "add_crate" ->
                    from_manifest(extract(data), compute_sha256_hex(data))
               [] via = "publish_crate" ->
                    into_index_entry(NewCrateMeta(data), compute_sha256_hex(data))
               [] OTHER ->
                    from_manifest(extract(meta), compute_sha256_hex(meta))
    IN  [op |-> "publish", via |-> via, method |-> "none", name |-> e.name,
         version |-> e.version, metadata |-> e, data |-> data]

Vias == {"add_crate", "publish_crate", "add_crate_with_metadata"}

PublishBegin(w, vias, tarballs) ==
    \E via \in vias :
    \E data \in tarballs :
    \E meta \in { t \in tarballs : t.pkg = data.pkg /\ t.ver = data.ver } :
        /\ via # "add_crate_with_metadata" => meta = data
        /\ Start(w, PublishCall(via, data, meta))
        /\ UNCHANGED << allowed_registries, FsVars, LocalVars, result, faulted, faults,
                        successes, supplied, prev, registry_lock, seen, PureVars, dropped >>

\* A registry check that lets every dependency pass.
RegistriesUnchecked(metadata, allowed) == TRUE

\* registry.rs:118-124: every dependency registry is an allowed one.
RegistriesAllowed(metadata, allowed) ==
    \A i \in 1..Len(metadata.dependencies) :
        metadata.dependencies[i].registry # << >>
            => metadata.dependencies[i].registry[1] \in allowed

\* registry.rs:117-137: the registry check, create_dirs and the open of the
\* index file with create(true).
PublishOpen(w) ==
    /\ UNCHANGED supplied
    /\ pc[w] = "open"
    /\ call[w].op = "publish"
    /\ UNCHANGED CallVars
    /\ IF ~RegistriesAllowed(call[w].metadata, allowed_registries)
       THEN /\ Return(w, "DisallowedDependencyRegistry", FALSE)
            /\ UNCHANGED FsVars
       ELSE \/ /\ MayFault
               /\ Return(w, "OpenFailed", TRUE)
               /\ UNCHANGED FsVars
            \/ /\ index_dir' = [index_dir EXCEPT ![IndexPathOf(w)] =
                                   IF @.exists THEN @ ELSE File(<< >>)]
               /\ Goto(w, "lock")
               /\ UNCHANGED << crate_dir, head_tree, head_count, git_index, LocalVars >>

\* A duplicate check that looks at the last entry only.
IsDuplicateOfLast(entries, version) ==
    Len(entries) > 0 /\ entries[Len(entries)].version = version

\* registry.rs:143: the version is in the index already.
IsDuplicate(entries, version) ==
    \E i \in 1..Len(entries) : entries[i].version = version

\* registry.rs:139-145: lock_exclusive, read_index under the lock and the
\* duplicate check.
PublishLock(w) ==
    /\ UNCHANGED supplied
    /\ pc[w] = "lock"
    /\ call[w].op = "publish"
    /\ UNCHANGED << CallVars, FsVars >>
    /\ \/ /\ MayFault
          /\ \E e \in {"LockFailed", "ReadFailed"} : Return(w, e, TRUE)
       \/ /\ LockAvailable(file_lock[IndexPathOf(w)])
          /\ LET lines == index_dir[IndexPathOf(w)].lines
             IN  IF ~RegistryReadOk(lines)
                 THEN Return(w, "ParseFailed", FALSE)
                 ELSE IF IsDuplicate(RegistryRead(lines), call[w].version)
                 THEN Return(w, "DuplicateVersion", FALSE)
                 ELSE /\ file_lock' = [file_lock EXCEPT ![IndexPathOf(w)] = @ \cup {w}]
                      /\ index' = [index EXCEPT ![w] = RegistryRead(lines)]
                      /\ Goto(w, "blob")
                      /\ UNCHANGED << head, mem_index >>

\* An open with create(true) in place of create_new(true).
CreateAllowed(blob) == TRUE

\* util::create_new_file opens with create_new(true): it fails on a path
\* that exists.
CreateNewAllowed(blob) == ~blob.exists

\* A single write that stores none of the data.
write_short(data) == << >>

\* util.rs:177: write_all stores all of the data.
write_all(data) == << data >>

\* registry.rs:148, util::write_new_file: create the blob file, lock it and
\* write the data. A failure after the create leaves the empty file.
PublishBlob(w) ==
    /\ UNCHANGED supplied
    /\ pc[w] = "blob"
    /\ UNCHANGED << CallVars, index_dir, head_tree, head_count, git_index >>
    /\ IF ~CreateNewAllowed(crate_dir[CratePathOf(w)])
       THEN /\ Return(w, "CreateFailed", FALSE)
            /\ UNCHANGED crate_dir
       ELSE \/ /\ MayFault
               /\ Return(w, "CreateFailed", TRUE)
               /\ UNCHANGED crate_dir
            \/ /\ MayFault
               /\ Return(w, "WriteFailed", TRUE)
               /\ crate_dir' = [crate_dir EXCEPT ![CratePathOf(w)] = Blob(<< >>)]
            \/ /\ crate_dir' = [crate_dir EXCEPT ![CratePathOf(w)] = Blob(write_all(call[w].data))]
               /\ Goto(w, "append")
               /\ UNCHANGED LocalVars

\* A write of the index line that writes nothing.
AppendNothing(lines, metadata) == lines

\* registry.rs:151: writeln! of the serialized entry to the file opened in
\* append mode.
AppendLine(lines, metadata) == Append(lines, EntryToJson(metadata))

PublishAppend(w) ==
    /\ pc[w] = "append"
    /\ UNCHANGED << CallVars, crate_dir, head_tree, head_count, git_index >>
    /\ \/ /\ MayFault
          /\ Return(w, "WriteFailed", TRUE)
          /\ UNCHANGED << index_dir, supplied >>
       \/ /\ index_dir' = [index_dir EXCEPT ![IndexPathOf(w)] =
                              File(AppendLine(@.lines, call[w].metadata))]
          /\ supplied' = IF call[w].metadata.checksum_sha256 = compute_sha256_hex(call[w].data)
                         THEN supplied \ {CratePathOf(w)}
                         ELSE supplied \cup {CratePathOf(w)}
          /\ Goto(w, "commit")
          /\ UNCHANGED LocalVars

\* ------------------------------------------------------------------ yank, unyank

YankBegin(w) ==
    \E op \in {"yank", "unyank"} : \E name \in CrateNames : \E version \in Versions :
        /\ Start(w, [op |-> op, via |-> op, method |-> "none", name |-> name,
                     version |-> version, metadata |-> NoEntry, data |-> NoTarball])
        /\ UNCHANGED << allowed_registries, FsVars, LocalVars, result, faulted, faults,
                        successes, supplied, prev, registry_lock, seen, PureVars, dropped >>

\* util::open_file_read_write up to the open: the file must exist.
YankOpen(w) ==
    /\ UNCHANGED supplied
    /\ pc[w] = "open"
    /\ call[w].op \in {"yank", "unyank"}
    /\ UNCHANGED << CallVars, FsVars >>
    /\ IF ~index_dir[IndexPathOf(w)].exists
       THEN Return(w, "CrateNotFound", FALSE)
       ELSE \/ /\ MayFault
               /\ Return(w, "OpenFailed", TRUE)
            \/ /\ Goto(w, "lock")
               /\ UNCHANGED LocalVars

\* registry.rs:194-204 and 236-246: the entries with the yanked flag of every
\* entry of that version set to the target state, and the two counters.
SetYankedEvery(entries, version, target) ==
    [i \in 1..Len(entries) |-> [entries[i] EXCEPT !.yanked = target]]
SetYanked(entries, version, target) ==
    [i \in 1..Len(entries) |->
        IF entries[i].version = version
        THEN [entries[i] EXCEPT !.yanked = target]
        ELSE entries[i]]
FoundAnyVersion(entries, version) == Len(entries)
Found(entries, version) ==
    Cardinality({ i \in 1..Len(entries) : entries[i].version = version })
ChangedCountsFound(entries, version, target) ==
    Cardinality({ i \in 1..Len(entries) : entries[i].version = version })
Changed(entries, version, target) ==
    Cardinality({ i \in 1..Len(entries) :
                    entries[i].version = version /\ entries[i].yanked # target })

\* Unyank with the target state of yank.
TargetYanked(op) == TRUE

\* The state yank moves entries to is yanked, unyank not yanked.
Target(op) == op = "yank"

\* registry.rs:191-208: the lock of open_file_read_write, index::read_index,
\* the loop over the entries and the two early returns.
YankLock(w) ==
    /\ UNCHANGED supplied
    /\ pc[w] = "lock"
    /\ call[w].op \in {"yank", "unyank"}
    /\ UNCHANGED << CallVars, FsVars >>
    /\ \/ /\ MayFault
          /\ \E e \in {"LockFailed", "ReadFailed"} : Return(w, e, TRUE)
       \/ /\ LockAvailable(file_lock[IndexPathOf(w)])
          /\ LET lines == index_dir[IndexPathOf(w)].lines
                 v == call[w].version
                 t == Target(call[w].op)
             IN  IF ~IndexReadOk(lines)
                 THEN Return(w, "ParseFailed", FALSE)
                 ELSE IF Found(IndexRead(lines), v) = 0
                 THEN Return(w, "VersionNotFound", FALSE)
                 ELSE IF Changed(IndexRead(lines), v, t) = 0
                 THEN Return(w, "Ok(false)", FALSE)
                 ELSE /\ file_lock' = [file_lock EXCEPT ![IndexPathOf(w)] = @ \cup {w}]
                      /\ index' = [index EXCEPT ![w] = SetYanked(IndexRead(lines), v, t)]
                      /\ Goto(w, "truncate")
                      /\ UNCHANGED << head, mem_index >>

\* registry.rs:211 and 253: util::truncate_file.
YankTruncate(w) ==
    /\ UNCHANGED supplied
    /\ pc[w] = "truncate"
    /\ UNCHANGED << CallVars, crate_dir, head_tree, head_count, git_index >>
    /\ \/ /\ MayFault
          /\ Return(w, "WriteFailed", TRUE)
          /\ UNCHANGED index_dir
       \/ /\ index_dir' = [index_dir EXCEPT ![IndexPathOf(w)] = File(truncate_file(@.lines))]
          /\ Goto(w, "write")
          /\ UNCHANGED LocalVars

\* registry.rs:212 and 254: index::write_index writes at the file pointer,
\* which the truncation left at the start of the empty file.
YankWrite(w) ==
    /\ UNCHANGED supplied
    /\ pc[w] = "write"
    /\ UNCHANGED << CallVars, crate_dir, head_tree, head_count, git_index >>
    /\ \/ /\ MayFault
          /\ Return(w, "WriteFailed", TRUE)
          /\ UNCHANGED index_dir
       \/ /\ index_dir' = [index_dir EXCEPT ![IndexPathOf(w)] =
                              File(@.lines \o write_index(index[w]))]
          /\ Goto(w, "commit")
          /\ UNCHANGED LocalVars

\* ------------------------------------------------------------------ add_commit

\* util.rs:43-54: the git index holds staged changes when it differs from the
\* tree of HEAD.
IndexDirty(staged, tree) == staged # tree

\* util.rs:30-54: the signature, HEAD and the git index are read; the commit is
\* refused when the repository is busy or the index is dirty.
CommitBegin(w) ==
    /\ UNCHANGED supplied
    /\ pc[w] = "commit"
    /\ UNCHANGED << CallVars, FsVars >>
    /\ \/ /\ MayFault
          /\ Return(w, "CommitFailed", TRUE)
       \/ IF IndexDirty(git_index, head_tree)
          THEN Return(w, "CommitFailed", FALSE)
          ELSE /\ head' = [head EXCEPT ![w] = head_count]
               /\ mem_index' = [mem_index EXCEPT ![w] = git_index]
               /\ Goto(w, "stage")
               /\ UNCHANGED << file_lock, index >>

\* util.rs:57-62: index.add_path stages the working-tree content of the file,
\* index.write stores the git index.
CommitStage(w) ==
    /\ UNCHANGED supplied
    /\ pc[w] = "stage"
    /\ UNCHANGED << CallVars, index_dir, crate_dir, head_tree, head_count >>
    /\ \/ /\ MayFault
          /\ Return(w, "CommitFailed", TRUE)
          /\ UNCHANGED git_index
       \/ /\ mem_index' = [mem_index EXCEPT ![w] =
                              [@ EXCEPT ![IndexPathOf(w)] = index_dir[IndexPathOf(w)]]]
          /\ git_index' = mem_index'[w]
          /\ Goto(w, "tip")
          /\ UNCHANGED << file_lock, index, head >>

\* The two results of yank and unyank swapped.
SuccessSwapped(op) == IF op = "publish" THEN "Ok" ELSE "Ok(false)"

\* What the finished call returns.
Success(op) == IF op = "publish" THEN "Ok" ELSE "Ok(true)"

\* util.rs:65-76: the tree of the git index is committed on HEAD with the
\* resolved HEAD as its parent; the reference update fails when HEAD moved.
CommitTip(w) ==
    /\ UNCHANGED supplied
    /\ pc[w] = "tip"
    /\ UNCHANGED << CallVars, index_dir, crate_dir, git_index >>
    /\ \/ /\ MayFault
          /\ Return(w, "CommitFailed", TRUE)
          /\ UNCHANGED << head_tree, head_count >>
       \/ IF head_count # head[w]
          THEN /\ Return(w, "CommitFailed", FALSE)
               /\ UNCHANGED << head_tree, head_count >>
          ELSE /\ head_tree' = mem_index[w]
               /\ head_count' = head_count + 1
               /\ Return(w, Success(call[w].op), FALSE)

\* The caller has the result of its call; a handler of the server returns
\* and drops its guard of the Registry. Of the finished call the caller
\* remembers a yank that returned true, with the file as it was before it.
Finish(w) ==
    /\ pc[w] = "done"
    /\ pc' = [pc EXCEPT ![w] = "idle"]
    /\ call' = [call EXCEPT ![w] = NoCall]
    /\ pre' = [pre EXCEPT ![w] = NoPre]
    /\ result' = [result EXCEPT ![w] = "none"]
    /\ faulted' = [faulted EXCEPT ![w] = FALSE]
    /\ prev' = [prev EXCEPT ![w] =
                    IF call[w].op = "yank" /\ result[w] = "Ok(true)"
                    THEN [call |-> call[w], result |-> result[w], before |-> pre[w].file]
                    ELSE NoPrev]
    /\ registry_lock' = registry_lock \ {w}
    /\ seen' = [seen EXCEPT ![w] = << >>]
    /\ dropped' = [dropped EXCEPT ![w] = "none"]
    /\ UNCHANGED << allowed_registries, calls, faults, successes, supplied, FsVars, LocalVars,
                    PureVars >>

\* ------------------------------------------------------------------ specification

Step(w, vias, tarballs) ==
    \/ PublishBegin(w, vias, tarballs)
    \/ PublishOpen(w)
    \/ PublishLock(w)
    \/ PublishBlob(w)
    \/ PublishAppend(w)
    \/ YankBegin(w)
    \/ YankOpen(w)
    \/ YankLock(w)
    \/ YankTruncate(w)
    \/ YankWrite(w)
    \/ CommitBegin(w)
    \/ CommitStage(w)
    \/ CommitTip(w)
    \/ Finish(w)

\* Several callers, in different processes, work on the registry root: the
\* first is a request handler of the server, the others are runs of the
\* command-line tool. They publish the first contents of every package.
ViaOf(w) == IF w = 1 THEN {"publish_crate"} ELSE {"add_crate"}
FirstContents == { t \in Tarballs : t.salt = 1 }
Next == \E w \in Workers : Step(w, ViaOf(w), FirstContents)
InitShared == Init /\ allowed_registries = {CratesIo}
Spec == InitShared /\ [][Next]_vars

\* One caller issues its calls one after the other.
NextSeq == Step(1, Vias, Tarballs)
SpecSeq == Init /\ [][NextSeq]_vars

\* ------------------------------------------------------------------ read-only calls

ReadCall(via, name) ==
    [op |-> "read", via |-> via, method |-> "none", name |-> name, version |-> "",
     metadata |-> NoEntry, data |-> NoTarball]
DownloadCall(name, version, method) ==
    [op |-> "download", via |-> "get_crate", method |-> method, name |-> name,
     version |-> version, metadata |-> NoEntry, data |-> NoTarball]

\* Registry::read_index called by a process of its own.
ReadBegin(w) ==
    \E name \in CrateNames :
        /\ Start(w, ReadCall("read_index", name))
        /\ UNCHANGED << allowed_registries, FsVars, LocalVars, result, faulted, faults,
                        successes, supplied, prev, registry_lock, seen, PureVars, dropped >>

\* util::open_file_read up to the open: the file must exist.
ReadOpen(w) ==
    /\ UNCHANGED supplied
    /\ pc[w] = "open"
    /\ call[w].op = "read"
    /\ UNCHANGED << CallVars, FsVars >>
    /\ IF ~index_dir[IndexPathOf(w)].exists
       THEN Return(w, "NotFound", FALSE)
       ELSE \/ /\ MayFault
               /\ Return(w, "OpenFailed", TRUE)
            \/ /\ Goto(w, "lock")
               /\ UNCHANGED LocalVars

\* A shared lock that never waits.
SharedIgnored(holders) == TRUE

\* fs2 lock_shared returns when no handle holds the file's exclusive lock:
\* every holder is a reader.
SharedAvailable(holders) == \A h \in holders : call[h].op = "read"

\* util.rs:93: lock_shared of open_file_read.
ReadLock(w) ==
    /\ UNCHANGED supplied
    /\ pc[w] = "lock"
    /\ call[w].op = "read"
    /\ UNCHANGED << CallVars, FsVars >>
    /\ \/ /\ MayFault
          /\ Return(w, "LockFailed", TRUE)
       \/ /\ SharedAvailable(file_lock[IndexPathOf(w)])
          /\ file_lock' = [file_lock EXCEPT ![IndexPathOf(w)] = @ \cup {w}]
          /\ Goto(w, "read")
          /\ UNCHANGED << index, head, mem_index >>

\* registry::read_index: read_to_end of the locked file, then the parse of
\* its lines.
ReadData(w) ==
    /\ UNCHANGED supplied
    /\ pc[w] = "read"
    /\ UNCHANGED << allowed_registries, calls, call, pre, registry_lock, PureVars, dropped, FsVars >>
    /\ \/ /\ MayFault
          /\ Return(w, "ReadFailed", TRUE)
          /\ UNCHANGED seen
       \/ /\ seen' = [seen EXCEPT ![w] = index_dir[IndexPathOf(w)].lines]
          /\ Return(w, IF RegistryReadOk(index_dir[IndexPathOf(w)].lines)
                       THEN "Ok(entries)" ELSE "ParseFailed", FALSE)

\* ------------------------------------------------------------------ server

Mutating(c) == c.op \in {"publish", "yank", "unyank"}

\* The requests to the server and the runs beside it are about the first
\* version of every crate.
ServerVersions == { AllVersions[1] }
ServerContents == { t \in FirstContents : t.ver \in ServerVersions }

\* A write() that never waits.
WriteIgnored(holders) == TRUE

\* RwLock::write returns when nobody holds the lock.
WriteAvailable(holders) == holders = {}

\* A read() that never waits.
ReadIgnored(holders) == TRUE

\* RwLock::read returns when no writer holds the lock.
ReadAvailable(holders) == \A h \in holders : ~Mutating(call[h])

\* The methods of the requests, and the methods each endpoint allows
\* (api_v1.rs:52, 198, 220 and server.rs:21).
Methods == {"GET", "HEAD", "PUT", "DELETE"}
Endpoints == {"publish", "yank", "unyank", "download"}
AllowedMethods(endpoint) ==
    CASE endpoint = "publish" -> {"PUT"}
      [] endpoint = "yank" -> {"DELETE"}
      [] endpoint = "unyank" -> {"PUT"}
      [] endpoint = "download" -> {"GET", "HEAD"}

\* A method check that lets every method pass.
MethodUnchecked(actual_method, allowed_methods) == TRUE

\* server::check_supported_method returns None: the method is an allowed one.
check_supported_method(actual_method, allowed_methods) ==
    actual_method \in allowed_methods

\* server.rs:78-92: the request has a method its endpoint does not allow; the
\* handler returns the 405 response before it touches the Registry.
HandlerReject(w) ==
    \E endpoint \in Endpoints : \E method \in Methods :
        /\ ~check_supported_method(method, AllowedMethods(endpoint))
        /\ calls < MaxCalls
        /\ pc[w] = "idle"
        /\ pc' = [pc EXCEPT ![w] = "done"]
        /\ calls' = calls + 1
        /\ call' = [call EXCEPT ![w] = [NoCall EXCEPT !.op = "rejected",
                                                      !.via = endpoint,
                                                      !.method = method]]
        /\ result' = [result EXCEPT ![w] = "MethodNotAllowed"]
        /\ pre' = [pre EXCEPT ![w] = [NoPre EXCEPT !.head_count = head_count,
                                                   !.id = calls + 1]]
        /\ UNCHANGED << allowed_registries, FsVars, LocalVars, faulted, faults,
                        successes, supplied, prev, registry_lock, seen, PureVars, dropped >>

\* api_v1.rs:52-77: the handler of /api/v1/crates/new checks the method, has
\* the entry of the request, takes the write lock and calls
\* add_crate_with_metadata.
HandlerPublishBegin(w) ==
    \E data \in ServerContents : \E method \in Methods :
        /\ check_supported_method(method, AllowedMethods("publish"))
        /\ WriteAvailable(registry_lock)
        /\ registry_lock' = registry_lock \cup {w}
        /\ Start(w, [PublishCall("publish_crate", data, data) EXCEPT !.method = method])
        /\ UNCHANGED << allowed_registries, FsVars, LocalVars, result, faulted, faults,
                        successes, supplied, prev, seen, PureVars, dropped >>

\* api_v1.rs:198-203 and 220-225: the handlers of yank and unyank check the
\* method, take the write lock and call yank_crate or unyank_crate.
HandlerYankBegin(w) ==
    \E op \in {"yank", "unyank"} : \E name \in CrateNames : \E version \in ServerVersions :
    \E method \in Methods :
        /\ check_supported_method(method, AllowedMethods(op))
        /\ WriteAvailable(registry_lock)
        /\ registry_lock' = registry_lock \cup {w}
        /\ Start(w, [op |-> op, via |-> "api_v1", method |-> method, name |-> name,
                     version |-> version, metadata |-> NoEntry, data |-> NoTarball])
        /\ UNCHANGED << allowed_registries, FsVars, LocalVars, result, faulted, faults,
                        successes, supplied, prev, seen, PureVars, dropped >>

\* The number of components of a relative path, and its last component.
Depth(path) == 1 + Cardinality({ i \in 1..Len(path) : path[i] = 47 })
FileName(path) ==
    LET last == CHOOSE i \in 0..Len(path) :
                    /\ i = 0 \/ path[i] = 47
                    /\ \A j \in (i + 1)..Len(path) : path[j] # 47
    IN  SubSeq(path, last + 1, Len(path))

\* Registry::iter_crate_names: the names of the files of the index directory
\* that lie at least three levels deep.
iter_crate_names(tree) ==
    { FileName(p) : p \in { q \in DOMAIN tree : tree[q].exists /\ Depth(q) >= 3 } }

\* api_v1.rs:273-289: search takes the read lock and calls read_index for an
\* enumerated name that contains the query.
HandlerSearchBegin(w) ==
    \E name \in iter_crate_names(index_dir) :
        /\ ReadAvailable(registry_lock)
        /\ registry_lock' = registry_lock \cup {w}
        /\ Start(w, [ReadCall("search", name) EXCEPT !.method = "GET"])
        /\ UNCHANGED << allowed_registries, FsVars, LocalVars, result, faulted, faults,
                        successes, supplied, prev, seen, PureVars, dropped >>

\* server.rs:21-25: get_crate checks the method and takes the read lock.
HandlerDownloadBegin(w) ==
    \E name \in CrateNames : \E version \in ServerVersions : \E method \in Methods :
        /\ check_supported_method(method, AllowedMethods("download"))
        /\ ReadAvailable(registry_lock)
        /\ registry_lock' = registry_lock \cup {w}
        /\ Start(w, DownloadCall(name, version, method))
        /\ UNCHANGED << allowed_registries, FsVars, LocalVars, result, faulted, faults,
                        successes, supplied, prev, seen, PureVars, dropped >>

\* server.rs:26-39: std::fs::read of the blob file, without a lock on it.
Download(w) ==
    /\ UNCHANGED supplied
    /\ pc[w] = "open"
    /\ call[w].op = "download"
    /\ UNCHANGED << allowed_registries, calls, call, pre, registry_lock, PureVars, dropped, FsVars >>
    /\ IF ~crate_dir[CratePathOf(w)].exists
       THEN /\ Return(w, "NotFound", FALSE)
            /\ UNCHANGED seen
       ELSE \/ /\ MayFault
               /\ \E e \in {"PermissionDenied", "ReadFailed"} : Return(w, e, TRUE)
               /\ UNCHANGED seen
            \/ /\ seen' = [seen EXCEPT ![w] = crate_dir[CratePathOf(w)].bytes]
               /\ Return(w, "Ok(data)", FALSE)

\* The call of w is a request to the server.
IsRequest(w) == call[w].method # "none"

\* The responses: their status, the Cache-Control and Content-Type headers
\* and the body.
HttpResponse(status, cache_control, content_type, body) ==
    [status |-> status, cache_control |-> cache_control,
     content_type |-> content_type, body |-> body]
Body(kind, detail, data) == [kind |-> kind, detail |-> detail, data |-> data]

\* api_v1.rs:345-349: json_response leaves the status at 200 OK.
json_response(json) == HttpResponse(200, "no-store", "application/json", json)

\* api_v1.rs:324-343: the error envelope with the message as its detail.
error_response(message) == json_response(Body("errors", message, << >>))

\* server.rs:57-93
not_found == HttpResponse(404, "no-store", "none", Body("text", "Not Found", << >>))
unauthorized == HttpResponse(401, "no-store", "none", Body("text", "Unauthorized", << >>))
internal_server_error(message) ==
    HttpResponse(500, "no-store", "none", Body("text", message, << >>))
method_not_allowed ==
    HttpResponse(405, "none", "none", Body("text", "Method not supported", << >>))

\* A download that sends the data in answer to HEAD and not to GET.
BodyForHead(method, data) == IF method = "HEAD" THEN data ELSE << >>

\* server.rs:45-49: the data is the body of the answer to GET, the answer
\* to HEAD has an empty body.
DownloadBody(method, data) == IF method = "GET" THEN data ELSE << >>

\* What the handler answers when the call c returned r (and read data).
Response(c, r, data) ==
    CASE c.op = "rejected" -> method_not_allowed
      [] c.op = "publish" ->
            CASE r = "Ok" -> json_response(Body("warnings", "", << >>))
              [] r = "BodyFailed" -> internal_server_error("Failed to read response body")
              [] OTHER -> error_response(r)
      [] c.op \in {"yank", "unyank"} ->
            IF r \in {"Ok(true)", "Ok(false)"} THEN json_response(Body("ok", "true", << >>))
            ELSE error_response(r)
      [] c.op = "download" ->
            CASE r = "Ok(data)" ->
                    HttpResponse(200, "private", "application/gzip",
                                 Body("bytes", "", DownloadBody(c.method, data)))
              [] r = "NotFound" -> not_found
              [] r = "PermissionDenied" -> unauthorized
              [] OTHER -> internal_server_error("Failed to read crate data")
      [] OTHER -> json_response(Body("results", "", << >>))

\* The handlers of one server process (every caller can be one), and beside
\* them the callers other than the first as processes of their own: runs of
\* the command-line tool and readers of the library.
HandlerStep(w) ==
    \/ HandlerReject(w)
    \/ HandlerPublishBegin(w)
    \/ HandlerYankBegin(w)
    \/ HandlerSearchBegin(w)
    \/ HandlerDownloadBegin(w)
    \/ Download(w)
    \/ ReadOpen(w)
    \/ ReadLock(w)
    \/ ReadData(w)

ProcessStep(w) ==
    \/ PublishBegin(w, {"add_crate"}, ServerContents)
    \/ YankBegin(w)
    \/ ReadBegin(w)

CallStep(w) ==
    \/ PublishOpen(w)
    \/ PublishLock(w)
    \/ PublishBlob(w)
    \/ PublishAppend(w)
    \/ YankOpen(w)
    \/ YankLock(w)
    \/ YankTruncate(w)
    \/ YankWrite(w)
    \/ CommitBegin(w)
    \/ CommitStage(w)
    \/ CommitTip(w)
    \/ Finish(w)

NextServer ==
    \E w \in Workers :
        \/ HandlerStep(w)
        \/ w # 1 /\ ProcessStep(w)
        \/ CallStep(w)
SpecServer == InitShared /\ [][NextServer]_vars

\* The steps of a started operation of caller w that the environment does
\* not fail. A started operation is a running thread or process: the
\* scheduler lets it take its next step when that step can be taken.
Progress(w) ==
    /\ \/ CallStep(w)
       \/ Download(w)
       \/ ReadOpen(w)
       \/ ReadLock(w)
       \/ ReadData(w)
    /\ faults' = faults

\* The server and the command-line processes, for the calls of one round:
\* up to MaxLiveCalls calls, which may run at the same time.
MaxLiveCalls == 2
NextLive ==
    \E w \in Workers :
        \/ HandlerStep(w) /\ calls' <= MaxLiveCalls
        \/ w # 1 /\ ProcessStep(w) /\ calls' <= MaxLiveCalls
        \/ CallStep(w)
SpecLive ==
    InitShared /\ [][NextLive]_vars /\ \A w \in Workers : WF_vars(Progress(w))

\* ------------------------------------------------------------------ dropped connections

\* api_v1.rs:52-57: a PUT to /api/v1/crates/new has arrived, the method is
\* checked and the handler awaits the body of the request.
HandlerReceive(w) ==
    \E data \in ServerContents :
        /\ check_supported_method("PUT", AllowedMethods("publish"))
        /\ calls < MaxCalls
        /\ pc[w] = "idle"
        /\ pc' = [pc EXCEPT ![w] = "body"]
        /\ calls' = calls + 1
        /\ call' = [call EXCEPT ![w] =
                        [PublishCall("publish_crate", data, data) EXCEPT !.method = "PUT"]]
        /\ UNCHANGED << allowed_registries, FsVars, LocalVars, result, faulted, faults,
                        successes, supplied, prev, pre, registry_lock, seen, PureVars,
                        dropped >>

\* api_v1.rs:57-77: the body is there (or reading it failed); it is parsed,
\* the entry is built, the handler takes the write lock and calls
\* add_crate_with_metadata.
HandlerBody(w) ==
    /\ pc[w] = "body"
    /\ UNCHANGED << allowed_registries, calls, call, seen, PureVars, dropped, FsVars, supplied >>
    /\ \/ /\ MayFault
          /\ Return(w, "BodyFailed", TRUE)
          /\ UNCHANGED << pre, registry_lock >>
       \/ /\ WriteAvailable(registry_lock)
          /\ registry_lock' = registry_lock \cup {w}
          /\ pre' = [pre EXCEPT ![w] = PreOf(call[w], calls)]
          /\ Goto(w, "open")
          /\ UNCHANGED LocalVars

\* A handler that can be cancelled wherever it is.
CancellableAnywhere(p) == TRUE

\* The future of a handler is dropped only where it awaits: publish_crate
\* awaits the body (api_v1.rs:57) and nothing after it.
Cancellable(p) == p = "body"

\* The client of the request goes away. A handler that awaits is dropped
\* with everything it holds; one that runs goes on, and what it returns
\* is sent to nobody.
Drop(w) ==
    /\ IsRequest(w)
    /\ dropped[w] = "none"
    /\ UNCHANGED << allowed_registries, calls, FsVars, faults, successes, supplied, prev,
                    seen, PureVars >>
    /\ IF Cancellable(pc[w])
       THEN /\ pc' = [pc EXCEPT ![w] = "idle"]
            /\ call' = [call EXCEPT ![w] = NoCall]
            /\ pre' = [pre EXCEPT ![w] = NoPre]
            /\ result' = [result EXCEPT ![w] = "none"]
            /\ faulted' = [faulted EXCEPT ![w] = FALSE]
            /\ registry_lock' = registry_lock \ {w}
            /\ file_lock' = [p \in IndexPaths |-> file_lock[p] \ {w}]
            /\ index' = [index EXCEPT ![w] = << >>]
            /\ head' = [head EXCEPT ![w] = 0]
            /\ mem_index' = [mem_index EXCEPT ![w] = EmptyTree]
            /\ UNCHANGED dropped
       ELSE /\ dropped' = [dropped EXCEPT ![w] = pc[w]]
            /\ UNCHANGED << pc, call, pre, result, faulted, registry_lock, LocalVars >>

\* The steps of a publish once the handler has called the Registry.
PublishStep(w) ==
    \/ PublishOpen(w)
    \/ PublishLock(w)
    \/ PublishBlob(w)
    \/ PublishAppend(w)
    \/ CommitBegin(w)
    \/ CommitStage(w)
    \/ CommitTip(w)
    \/ Finish(w)

\* The publish handlers of one server whose clients may go away at any
\* moment. A handler that has called the Registry runs on a thread of the
\* runtime: it keeps taking steps.
NextCancel ==
    \E w \in Workers :
        \/ HandlerReceive(w)
        \/ HandlerBody(w)
        \/ Drop(w)
        \/ PublishStep(w)
SpecCancel ==
    /\ InitShared
    /\ [][NextCancel]_vars
    /\ \A w \in Workers : WF_vars(PublishStep(w))

\* ------------------------------------------------------------------ publish metadata

\* The dependencies of the metadata of publish requests: every value of every
\* field of NewCrateDependency that the conversion looks at or copies.
WireDependencies ==
    [name : {"serde", "left"}, version : {"1.0"}, features : {<< >>, << "derive" >>},
     optional : BOOLEAN, default_features : BOOLEAN,
     target : {<< >>, << "cfg(unix)" >>}, kind : {"normal", "dev"},
     registry : {<< >>, << CratesIo >>},
     explicit_name_in_toml : {<< >>, << "alias" >>}]

\* The dependency lists: none, any one dependency, and the pairs of the
\* dependencies on serde that are plain but for a rename and a registry.
PlainDependencies ==
    { d \in WireDependencies :
        /\ d.name = "serde" /\ d.features = << >> /\ ~d.optional /\ d.default_features
        /\ d.target = << >> /\ d.kind = "normal" }
WireDependencyLists ==
    { << >> } \cup { << d >> : d \in WireDependencies }
             \cup { << d, e >> : d \in PlainDependencies, e \in PlainDependencies }

\* The NewCrateMeta of publish requests.
WireMetas ==
    [name : CrateNames, version : { AllVersions[1] }, dependencies : WireDependencyLists,
     features : {<< >>}, links : {<< >>, << "z" >>}]

\* api_v1.rs:73-74: the handler computes the checksum of the data and
\* converts the metadata of the request.
Convert ==
    \E meta \in WireMetas : \E data \in FirstContents :
        /\ input = NoInput
        /\ input' = [op |-> "into_index_entry", meta |-> meta,
                     crate_sha256 |-> compute_sha256_hex(data)]
        /\ output' = [kind |-> "entry",
                      entry |-> into_index_entry(meta, compute_sha256_hex(data))]
        /\ UNCHANGED << allowed_registries, calls, call, pre, registry_lock, seen,
                        FsVars, LocalVars, pc, result, faulted, faults, successes,
                        supplied, prev, dropped, upload >>

SpecWire == Init /\ [][Convert]_vars

\* ------------------------------------------------------------------ request bodies

\* A length as the four bytes of the body, least significant first, and the
\* length the parser reads from the first four bytes of data
\* (api_v1.rs:172 and 184).
LE32(n) == << n % 256, (n \div 256) % 256, (n \div 65536) % 256, (n \div 16777216) % 256 >>
ReadLength(data) == data[1] + data[2] * 256 + data[3] * 65536 + data[4] * 16777216

\* The documents in the metadata place of the bodies: nothing, "{", "{}" and
\* {"name":"a","vers":"1","deps":[],"features":{}}
MetaDoc ==
    << 123, 34, 110, 97, 109, 101, 34, 58, 34, 97, 34, 44, 34, 118, 101, 114,
       115, 34, 58, 34, 49, 34, 44, 34, 100, 101, 112, 115, 34, 58, 91, 93,
       44, 34, 102, 101, 97, 116, 117, 114, 101, 115, 34, 58, 123, 125, 125 >>
EmptyObject == << 123, 125 >>
Docs == { << >>, << 123 >>, EmptyObject, MetaDoc }

\* serde_json::from_slice::<NewCrateMeta> of the bytes the bodies of the
\* model can have in the metadata place (a document, cut short or followed
\* by bytes of a length or of the data): "{}" is JSON without the fields
\* name, vers, deps and features, and only the last document has them.
ParsesAsMeta(json) == json = MetaDoc
ParseMeta(json) ==
    [name |-> << 97 >>, version |-> "1", dependencies |-> << >>,
     features |-> << >>, links |-> << >>]

RECURSIVE Filled(_)
Filled(k) == IF k = 0 THEN << >> ELSE << 31 >> \o Filled(k - 1)

\* The bodies: a declared length, a document, a declared length and some
\* bytes of data, where each declared length may be the true one, one less,
\* one more or 256 more, cut off after any number of bytes.
Declared(len) == { l \in {len - 1, len, len + 1, len + 256} : l >= 0 }
Bodies ==
    UNION { { SubSeq(LE32(l1) \o doc \o LE32(l2) \o Filled(n), 1, k) :
                k \in 0..(8 + Len(doc) + n) } :
            doc \in Docs, n \in 0..(MaxBlobLen + 1),
            l1 \in UNION { Declared(Len(d)) : d \in Docs },
            l2 \in UNION { Declared(m) : m \in 0..MaxBlobLen } }

\* A length check that accepts data followed by more bytes.
TarballLenAtLeast(len, tarball_len) == len >= tarball_len

\* api_v1.rs:187: the rest of the body is exactly the declared length.
TarballLenOk(len, tarball_len) == len = tarball_len

Err(message) == [kind |-> "Err", message |-> message, meta |-> << >>, tarball |-> << >>]

\* api_v1.rs:167-195
parse_crate(data) ==
    IF Len(data) < 4 THEN Err("missing metadata JSON length")
    ELSE
    LET json_len == ReadLength(data)
        data1 == SubSeq(data, 5, Len(data))
    IN  IF Len(data1) < json_len THEN Err("expected more bytes of metadata")
        ELSE
        LET json == SubSeq(data1, 1, json_len)
            data2 == SubSeq(data1, json_len + 1, Len(data1))
        IN  IF Len(data2) < 4 THEN Err("missing crate tarball length")
            ELSE
            LET tarball_len == ReadLength(data2)
                tarball == SubSeq(data2, 5, Len(data2))
            IN  IF ~TarballLenOk(Len(tarball), tarball_len)
                THEN Err("expected exactly the bytes of the crate tarball")
                ELSE IF ~ParsesAsMeta(json)
                THEN Err("failed to parse crate metadata")
                ELSE [kind |-> "Ok", message |-> "", meta |-> ParseMeta(json),
                      tarball |-> tarball]

\* api_v1.rs:65: the handler parses the body of the request.
Parse ==
    \E body \in Bodies :
        /\ input = NoInput
        /\ input' = [op |-> "parse_crate", data |-> body]
        /\ output' = parse_crate(body)
        /\ UNCHANGED << allowed_registries, calls, call, pre, registry_lock, seen,
                        FsVars, LocalVars, pc, result, faulted, faults, successes,
                        supplied, prev, dropped, upload >>

SpecBody == Init /\ [][Parse]_vars

\* ------------------------------------------------------------------ search

\* semver::Version, and semver::Version::parse(..).ok() of the version strings
\* found in the searched entries: "1.0" has no patch number and does not
\* parse.
Version(major, minor, patch, prerelease) ==
    [major |-> major, minor |-> minor, patch |-> patch, pre |-> prerelease]
SearchVersions == {"0.9.0", "0.10.0", "1.0.0-rc", "1.0.0", "1.0"}
VersionParse(s) ==
    CASE s = "0.9.0" -> << Version(0, 9, 0, "") >>
      [] s = "0.10.0" -> << Version(0, 10, 0, "") >>
      [] s = "1.0.0-rc" -> << Version(1, 0, 0, "rc") >>
      [] s = "1.0.0" -> << Version(1, 0, 0, "") >>
      [] s = "0.1.0" -> << Version(0, 1, 0, "") >>
      [] s = "0.2.0" -> << Version(0, 2, 0, "") >>
      [] s = "0.3.0" -> << Version(0, 3, 0, "") >>
      [] OTHER -> << >>

\* Display of a semver::Version.
VersionToString(v) ==
    CHOOSE s \in SearchVersions \cup Versions : VersionParse(s) = << v >>

\* Ord of semver::Version: the numbers in order, then a pre-release below
\* the release.
VersionLess(a, b) ==
    \/ a.major < b.major
    \/ a.major = b.major /\ a.minor < b.minor
    \/ a.major = b.major /\ a.minor = b.minor /\ a.patch < b.patch
    \/ a.major = b.major /\ a.minor = b.minor /\ a.patch = b.patch
        /\ a.pre # "" /\ b.pre = ""

\* The last of the versions.
last_version(versions) ==
    IF versions = << >> THEN << >> ELSE << versions[Len(versions)] >>

\* Iterator::max_by_key: the last of the greatest elements, none for no
\* element.
max_by_key(versions) ==
    IF versions = << >> THEN << >>
    ELSE << versions[CHOOSE i \in 1..Len(versions) :
                        /\ \A j \in 1..Len(versions) : ~VersionLess(versions[i], versions[j])
                        /\ \A j \in (i + 1)..Len(versions) : VersionLess(versions[j], versions[i])] >>

\* str::contains on the bytes of the name.
Contains(name, query) ==
    \E i \in 0..(Len(name) - Len(query)) : SubSeq(name, i + 1, i + Len(query)) = query

\* api_v1.rs:297-299: the versions of the entries that parse, in order.
RECURSIVE ParsedVersions(_)
ParsedVersions(entries) ==
    IF entries = << >> THEN << >>
    ELSE VersionParse(Head(entries).version) \o ParsedVersions(Tail(entries))

\* api_v1.rs:278-308: the closure of filter_map for one enumerated name: no
\* result when the name does not contain the query, when read_index fails
\* or when no version parses.
FindCrate(tree, name, query) ==
    LET file == tree[index_path_rel(name)]
        lines == IF file.exists THEN file.lines ELSE << >>
        version == max_by_key(ParsedVersions(RegistryRead(lines)))
    IN  IF ~Contains(name, query) \/ ~RegistryReadOk(lines) \/ version = << >>
        THEN << >>
        ELSE << [name |-> name, max_version |-> VersionToString(version[1]),
                 description |-> ""] >>

RECURSIVE FindCrates(_, _, _)
FindCrates(tree, names, query) ==
    IF names = << >> THEN << >>
    ELSE FindCrate(tree, Head(names), query) \o FindCrates(tree, Tail(names), query)

\* api_v1.rs:271-273: the defaults of the two parameters.
UnwrapOr(option, default) == IF option = << >> THEN default ELSE option[1]

\* api_v1.rs:241-322: search over the names in the order the walk of the
\* index directory yields them.
search(tree, walk, q, per_page) ==
    LET query == UnwrapOr(q, << >>)
        max_results == UnwrapOr(per_page, 10)
        crates == FindCrates(tree, [i \in 1..Len(walk) |-> FileName(walk[i])], query)
    IN  [kind |-> "search",
         crates |-> SubSeq(crates, 1, Min(Len(crates), max_results)),
         total |-> Len(crates)]

\* The registries searched. A small one holds up to three crates, "foo",
\* "foobar" and "Bar", each with one of the contents below; the walk yields
\* its files in any order.
SearchNames == { <<102, 111, 111>>, <<102, 111, 111, 98, 97, 114>>, <<66, 97, 114>> }
SearchEntry(name, version) == [NoEntry EXCEPT !.name = name, !.version = version]
SearchLines(name, versions) ==
    write_index([i \in 1..Len(versions) |-> SearchEntry(name, versions[i])])
SearchContents(name) ==
    { File(SearchLines(name, versions)) :
        versions \in { << >>, << "1.0" >>, << "0.10.0", "0.9.0" >>,
                       << "1.0.0-rc", "1.0" >>, << "1.0.0-rc", "1.0.0" >> } }
    \cup { File(Append(SearchLines(name, << "1.0.0" >>), << <<"name", name>> >>)) }
SearchTrees ==
    { t \in [{ index_path_rel(n) : n \in SearchNames } -> { NoFile } \cup UNION { SearchContents(n) : n \in SearchNames }] :
        \A n \in SearchNames :
            t[index_path_rel(n)] \in { NoFile } \cup SearchContents(n) }
Walks(tree) ==
    LET found == { p \in DOMAIN tree : tree[p].exists /\ Depth(p) >= 3 }
    IN  { walk \in [1..Cardinality(found) -> found] :
            \A i, j \in 1..Cardinality(found) : walk[i] = walk[j] => i = j }

\* A large one holds MaxCrates crates "caa", "cba", ..: the first with two
\* versions, the second with no semver version, the others with one.
MaxCrates == 12
LargeName(i) == << 99, 96 + i, 97 >>
LargeWalk == [i \in 1..MaxCrates |-> index_path_rel(LargeName(i))]
LargeTree ==
    [p \in { LargeWalk[i] : i \in 1..MaxCrates } |->
        LET i == CHOOSE k \in 1..MaxCrates : LargeWalk[k] = p
        IN  File(SearchLines(LargeName(i),
                    CASE i = 1 -> << "0.10.0", "0.9.0" >>
                      [] i = 2 -> << "1.0" >>
                      [] OTHER -> << "1.0.0" >>))]

Searchable ==
    UNION { { [tree |-> t, walk |-> walk] : walk \in Walks(t) } : t \in SearchTrees }
        \cup { [tree |-> LargeTree, walk |-> LargeWalk] }

\* The q and per_page parameters of the request, either of them absent.
Queries == { << >>, << <<111>> >>, << <<102, 111>> >>, << <<66>> >>, << <<98, 97, 114>> >>,
             << <<99>> >> }
PerPages == { << >>, << 0 >>, << 1 >>, << 2 >>, << 11 >> }

\* GET /api/v1/crates: one search of one registry.
Search ==
    /\ input = NoInput
    /\ \E r \in Searchable : \E q \in Queries : \E per_page \in PerPages :
        /\ input' = [op |-> "search", tree |-> r.tree, walk |-> r.walk, q |-> q,
                     per_page |-> per_page]
        /\ output' = search(r.tree, r.walk, q, per_page)
        /\ UNCHANGED << allowed_registries, calls, call, pre, registry_lock, seen,
                        FsVars, LocalVars, pc, result, faulted, faults, successes,
                        supplied, prev, dropped, upload >>

SpecSearch == Init /\ [][Search]_vars

\* ------------------------------------------------------------------ git committer

\* A git repository: its commit objects in creation order, HEAD as the
\* position of its commit (0 on an unborn branch), the git index on disk as
\* the set of staged (path, content) pairs, and the repository state.
NoRepo == << >>
Repo(objects, head_id, staged, state) ==
    [objects |-> objects, head |-> head_id, index |-> staged, state |-> state]
Commit(message, tree, parents) ==
    [message |-> message, tree |-> tree, parents |-> parents]

\* The files of a work tree, as a function from the paths to the content
\* of each file (none for a missing file).
CommitPaths == {"config.json", "README"}
WorkTrees == [CommitPaths -> { << >>, << "old" >> }]

\* The steps of add_commit that can fail for a reason outside the
\* repository (util.rs:30, 62, 65, 72).
CommitFaults == {"none", "signature", "index_write", "write_tree", "commit"}

\* util.rs:12-26: get_head, none on an unborn branch.
get_head(repo) == IF repo.head = 0 THEN << >> ELSE << repo.objects[repo.head] >>

\* A check of the index that finds every index clean.
IndexAlwaysClean(repo) == TRUE

\* util.rs:44-54: the index has no staged change against the tree of HEAD,
\* or is empty on an unborn branch.
IndexClean(repo) ==
    IF get_head(repo) # << >> THEN repo.index = get_head(repo)[1].tree
    ELSE repo.index = {}

\* git2::Index::add_path for the files in order: the entry of each path is
\* replaced by the content of the file in the work tree; a missing file
\* fails.
AddPathsOk(worktree, files) == \A i \in 1..Len(files) : worktree[files[i]] # << >>
AddPaths(staged, worktree, files) ==
    { e \in staged : \A i \in 1..Len(files) : e[1] # files[i] }
        \cup { << files[i], worktree[files[i]][1] >> : i \in 1..Len(files) }

\* util.rs:29-77: add_commit, with the step that fails (if any). The result
\* is the error or the id of the new commit, and the repository it leaves.
add_commit(repo, worktree, message, files, fault) ==
    LET head_commit == get_head(repo)
        staged == AddPaths(repo.index, worktree, files)
        written == [repo EXCEPT !.index = staged]
        id == Len(repo.objects) + 1
        parents == IF head_commit # << >> THEN << repo.head >> ELSE << >>
    IN  CASE fault = "signature" -> [result |-> "SignatureFailed", id |-> 0, repo |-> repo]
          [] repo.state # "Clean" -> [result |-> "RepoBusy", id |-> 0, repo |-> repo]
          [] ~IndexClean(repo) -> [result |-> "IndexDirty", id |-> 0, repo |-> repo]
          [] ~AddPathsOk(worktree, files) -> [result |-> "AddPathFailed", id |-> 0, repo |-> repo]
          [] fault = "index_write" -> [result |-> "IndexWriteFailed", id |-> 0, repo |-> repo]
          [] fault = "write_tree" -> [result |-> "WriteTreeFailed", id |-> 0, repo |-> written]
          [] fault = "commit" -> [result |-> "CommitFailed", id |-> 0, repo |-> written]
          [] OTHER ->
                [result |-> "Ok", id |-> id,
                 repo |-> [written EXCEPT
                            !.objects = Append(repo.objects, Commit(message, staged, parents)),
                            !.head = id]]

\* The repositories committed to: an unborn branch with an empty or a
\* non-empty index, and one or two commits with a clean or a dirty index,
\* each in the Clean state or in the middle of a merge.
ReadmeTree == { << "README", "old" >> }
BornObjects ==
    { << Commit("first", ReadmeTree, << >>) >>,
      << Commit("first", {}, << >>), Commit("second", ReadmeTree, << 1 >>) >> }
Repos ==
    { Repo(<< >>, 0, staged, state) :
        staged \in { {}, ReadmeTree }, state \in {"Clean", "Merge"} }
    \cup { Repo(objects, Len(objects), staged, state) :
            objects \in BornObjects,
            staged \in { ReadmeTree, {}, { << "README", "new" >> } },
            state \in {"Clean", "Merge"} }
FileLists == { << >>, << "config.json" >>, << "README" >>, << "README", "config.json" >> }

\* One call of add_commit.
AddCommit ==
    /\ input = NoInput
    /\ \E repo \in Repos : \E worktree \in WorkTrees : \E files \in FileLists :
       \E fault \in CommitFaults :
        /\ input' = [op |-> "add_commit", repo |-> repo, worktree |-> worktree,
                     files |-> files, fault |-> fault]
        /\ output' = [kind |-> "add_commit"] @@ add_commit(repo, worktree, "message", files, fault)
        /\ UNCHANGED << allowed_registries, calls, call, pre, registry_lock, seen,
                        FsVars, LocalVars, pc, result, faulted, faults, successes,
                        supplied, prev, dropped, upload >>

SpecCommit == Init /\ [][AddCommit]_vars

\* ------------------------------------------------------------------ init

\* The directory handed to init: palletizer.toml (none when missing), whether
\* the index directory exists, the files in it and the git repository in it
\* (none when there is none).
Root(toml, dir, worktree, repo) ==
    [toml |-> toml, dir |-> dir, worktree |-> worktree, repo |-> repo]
EmptyWorkTree == [p \in CommitPaths |-> << >>]
Roots ==
    { Root(toml, FALSE, EmptyWorkTree, NoRepo) : toml \in { << >>, << "old" >> } }
    \cup { Root(toml, TRUE, worktree, repo) :
            toml \in { << >>, << "old" >> }, worktree \in WorkTrees,
            repo \in { NoRepo } \cup { r \in Repos : r.head <= 1 } }

\* The steps of init that can fail for a reason outside the root, besides
\* those of add_commit.
InitFaults ==
    {"create_toml", "write_toml", "create_dirs", "repo_init", "create_config",
     "write_config"} \cup CommitFaults

InitMessage == "Initialize empty registry index."

\* registry.rs:21-43: Registry::init with the step that fails (if any): the
\* result and the root it leaves.
init(root, fault) ==
    LET with_toml == [root EXCEPT !.toml = << "toml" >>]
        with_dir == [with_toml EXCEPT !.dir = TRUE]
        repo == IF root.repo = NoRepo THEN Repo(<< >>, 0, {}, "Clean") ELSE root.repo
        with_repo == [with_dir EXCEPT !.repo = repo]
        with_config == [with_repo EXCEPT !.worktree["config.json"] = << "cargo_json" >>]
        committed == add_commit(repo, with_config.worktree, InitMessage,
                                << "config.json" >>, fault)
    IN  CASE root.toml # << >> -> [result |-> "Exists", root |-> root]
          [] fault = "create_toml" -> [result |-> "CreateFailed", root |-> root]
          [] fault = "write_toml" ->
                [result |-> "WriteFailed", root |-> [root EXCEPT !.toml = << "partial" >>]]
          [] fault = "create_dirs" -> [result |-> "CreateDirsFailed", root |-> with_toml]
          [] fault = "repo_init" -> [result |-> "RepoInitFailed", root |-> with_dir]
          [] root.worktree["config.json"] # << >> -> [result |-> "Exists", root |-> with_repo]
          [] fault = "create_config" -> [result |-> "CreateFailed", root |-> with_repo]
          [] fault = "write_config" ->
                [result |-> "WriteFailed",
                 root |-> [with_repo EXCEPT !.worktree["config.json"] = << "partial" >>]]
          [] OTHER ->
                [result |-> committed.result,
                 root |-> [with_config EXCEPT !.repo = committed.repo]]

\* palletizer init on one root.
RegistryInit ==
    /\ input = NoInput
    /\ \E root \in Roots : \E fault \in InitFaults :
        /\ input' = [op |-> "init", root |-> root, fault |-> fault]
        /\ output' = [kind |-> "init"] @@ init(root, fault)
        /\ UNCHANGED << allowed_registries, calls, call, pre, registry_lock, seen,
                        FsVars, LocalVars, pc, result, faulted, faults, successes,
                        supplied, prev, dropped, upload >>

SpecInit == Init /\ [][RegistryInit]_vars

\* ------------------------------------------------------------------ git-upload-pack

\* The chunks of a request body, the capacity of a pipe, and the bytes the
\* child writes to each of stderr and stdout.
MaxBody == 3
PipeCap == 2
MaxChildOut == 3

\* Everything but the upload-pack request.
RegistryVars ==
    << allowed_registries, calls, call, pre, registry_lock, seen, FsVars, LocalVars, pc,
       result, faulted, faults, successes, supplied, prev, dropped, input, output >>

\* The handler answers with status and drops stdin, stdout and stderr of the
\* child (git.rs:104, 109, 125, 139, 144): the pipes are closed.
UploadAnswer(status) ==
    [upload EXCEPT !.pc = "answered", !.status = status, !.stdin_open = FALSE,
                   !.closed = TRUE]

\* git.rs:103-131: the method and Content-Type checks and the spawn of
\* git-upload-pack --stateless-rpc with three pipes.
UploadBegin ==
    /\ upload.pc = "idle"
    /\ \E method \in {"POST", "GET"} : \E content_type_ok, spawned \in BOOLEAN :
       \E body \in 0..MaxBody : \E err, out \in 0..MaxChildOut :
        upload' =
            IF ~check_supported_method(method, {"POST"}) THEN UploadAnswer(405)
            ELSE IF ~content_type_ok THEN UploadAnswer(415)
            ELSE IF ~spawned THEN UploadAnswer(500)
            ELSE [upload EXCEPT !.pc = "forward", !.body = body, !.stdin_open = TRUE,
                                !.child = "run", !.err_left = err, !.out_left = out]
    /\ UNCHANGED RegistryVars

\* git.rs:134-146: one turn of the loop that forwards the body: the next
\* chunk is read and written to stdin, which waits while the pipe is full;
\* the write fails when the child has exited, and the handler answers 500.
UploadForward ==
    /\ upload.pc = "forward"
    /\ upload.body > 0
    /\ \/ /\ upload.child = "exited"
          /\ upload' = UploadAnswer(500)
       \/ /\ upload.child # "exited"
          /\ upload.stdin < PipeCap
          /\ upload' = [upload EXCEPT !.stdin = @ + 1, !.body = @ - 1]
    /\ UNCHANGED RegistryVars

\* git.rs:135-141: the read of the next chunk fails (the client went away),
\* and the handler answers 500.
UploadFail ==
    /\ upload.pc = "forward"
    /\ upload.body > 0
    /\ upload' = UploadAnswer(500)
    /\ UNCHANGED RegistryVars

\* git.rs:149-178: after the last chunk stdin is dropped, the task that
\* reads stderr is spawned, and the response that streams stdout is
\* returned.
UploadReturn ==
    /\ upload.pc = "forward"
    /\ upload.body = 0
    /\ upload' = [upload EXCEPT !.pc = "answered", !.status = 200, !.stdin_open = FALSE,
                                !.drain = TRUE]
    /\ UNCHANGED RegistryVars

\* git.rs:152-172: the spawned task reads a line of stderr, and ends when
\* stderr is at its end and the child has exited.
UploadDrain ==
    /\ upload.drain
    /\ \/ /\ upload.stderr > 0
          /\ upload' = [upload EXCEPT !.stderr = @ - 1]
       \/ /\ upload.stderr = 0
          /\ upload.child = "exited"
          /\ upload' = [upload EXCEPT !.drain = FALSE]
    /\ UNCHANGED RegistryVars

\* git.rs:178, 231-248: the response body reads a chunk of stdout.
UploadStream ==
    /\ upload.pc = "answered"
    /\ upload.status = 200
    /\ upload.stdout > 0
    /\ upload' = [upload EXCEPT !.stdout = @ - 1]
    /\ UNCHANGED RegistryVars

\* The child process: it reads its stdin, writes to stderr and to stdout in
\* any order, blocks in a write to a full pipe until the pipe has room or is
\* closed, and exits.
ChildRead ==
    /\ upload.child = "run"
    /\ upload.stdin > 0
    /\ upload' = [upload EXCEPT !.stdin = @ - 1, !.read = @ + 1]
    /\ UNCHANGED RegistryVars

ChildWriteErr ==
    /\ upload.child \in {"run", "blocked_err"}
    /\ upload.err_left > 0
    /\ ~upload.closed
    /\ upload' = IF upload.stderr < PipeCap
                 THEN [upload EXCEPT !.stderr = @ + 1, !.err_left = @ - 1, !.child = "run"]
                 ELSE [upload EXCEPT !.child = "blocked_err"]
    /\ upload' # upload
    /\ UNCHANGED RegistryVars

ChildWriteOut ==
    /\ upload.child \in {"run", "blocked_out"}
    /\ upload.out_left > 0
    /\ ~upload.closed
    /\ upload' = IF upload.stdout < PipeCap
                 THEN [upload EXCEPT !.stdout = @ + 1, !.out_left = @ - 1, !.child = "run"]
                 ELSE [upload EXCEPT !.child = "blocked_out"]
    /\ upload' # upload
    /\ UNCHANGED RegistryVars

ChildExit ==
    /\ \/ upload.child = "run"
       \/ upload.child \in {"blocked_err", "blocked_out"} /\ upload.closed
    /\ upload' = [upload EXCEPT !.child = "exited", !.stdin = 0]
    /\ UNCHANGED RegistryVars

NextUpload ==
    \/ UploadBegin
    \/ UploadForward
    \/ UploadFail
    \/ UploadReturn
    \/ UploadDrain
    \/ UploadStream
    \/ ChildRead
    \/ ChildWriteErr
    \/ ChildWriteOut
    \/ ChildExit

\* The handler, the spawned task and the child are all scheduled, and the
\* client reads the response; nothing makes the client go away.
SpecUpload ==
    /\ Init
    /\ [][NextUpload]_vars
    /\ WF_vars(UploadForward) /\ WF_vars(UploadReturn) /\ WF_vars(UploadDrain)
    /\ WF_vars(UploadStream) /\ WF_vars(ChildRead) /\ WF_vars(ChildWriteErr)
    /\ WF_vars(ChildWriteOut) /\ WF_vars(ChildExit)

\* ------------------------------------------------------------------ manifest

\* A crate archive: whether its gzip header decodes, and its tar entries in
\* order, each a path and the kind of content it holds: a manifest, bytes
\* that are not TOML, or TOML without a [package] table.
MaxEntries == 2
ManifestPath == "foo-0.1.0/Cargo.toml"
EntryPaths == { ManifestPath, "Cargo.toml", "foo-0.1.0/src/lib.rs" }
EntryData == {"manifest", "not_toml", "no_package"}
ArchiveEntries == [path : EntryPaths, data : EntryData]
Archives ==
    [gzip_ok : BOOLEAN,
     entries : UNION { [1..n -> ArchiveEntries] : n \in 0..MaxEntries }]

\* manifest.rs:56-79: extract_file, the data of the first entry at the path,
\* none when no entry has that path.
extract_file(path, archive) ==
    IF ~archive.gzip_ok THEN [kind |-> "Err", data |-> "failed to initialize gzip decoder"]
    ELSE LET at == { i \in 1..Len(archive.entries) : archive.entries[i].path = path }
         IN  IF at = {} THEN [kind |-> "None", data |-> ""]
             ELSE [kind |-> "Some",
                   data |-> archive.entries[CHOOSE i \in at : \A j \in at : i <= j].data]

\* toml::from_slice::<Manifest>
TomlParses(data) == data = "manifest"

\* Result::unwrap: the value of Ok, a panic for Err.
unwrap(ok) == IF ok THEN [kind |-> "Ok"] ELSE [kind |-> "panic"]

\* manifest.rs:81-86: extract.
manifest_extract(path, archive) ==
    LET found == extract_file(path, archive)
    IN  CASE found.kind = "Err" -> [kind |-> "Err"]
          [] found.kind = "None" -> [kind |-> "Err"]
          [] OTHER -> unwrap(TomlParses(found.data))

\* registry.rs:164-171: add_crate hands the archive to manifest::extract
\* before it touches the registry.
ExtractManifest ==
    /\ input = NoInput
    /\ \E archive \in Archives :
        /\ input' = [op |-> "extract", path |-> ManifestPath, archive |-> archive]
        /\ output' = [op |-> "extract"] @@ manifest_extract(ManifestPath, archive)
        /\ UNCHANGED << allowed_registries, calls, call, pre, registry_lock, seen,
                        FsVars, LocalVars, pc, result, faulted, faults, successes,
                        supplied, prev, dropped, upload >>

SpecManifest == Init /\ [][ExtractManifest]_vars

\* ------------------------------------------------------------------ index readers

\* The lines of the index files handed to the two readers: the lines of two
\* entries, one of them yanked, an empty line, and a line that is not an
\* entry; up to MaxLines of them.
MaxLines == 3
ReaderLines ==
    { EntryToJson(SearchEntry(<<102, 111, 111>>, "0.1.0")),
      EntryToJson([SearchEntry(<<102, 111, 111>>, "0.2.0") EXCEPT !.yanked = TRUE]),
      << >>,
      << <<"name", <<102, 111, 111>>>> >> }
IndexFiles == UNION { [1..n -> ReaderLines] : n \in 0..MaxLines }

\* What a reader returns: the entries, or an error.
ReadResult(ok, entries) == [ok |-> ok, entries |-> IF ok THEN entries ELSE << >>]

\* registry.rs:288-300 read_index, used by Registry::read_index and by the
\* duplicate check of publish, and index.rs:45-52 read_index, used by yank
\* and unyank, read the same file.
ReadBoth ==
    /\ input = NoInput
    /\ \E lines \in IndexFiles :
        /\ input' = [op |-> "read_index", lines |-> lines]
        /\ output' = [kind |-> "read",
                      registry |-> ReadResult(RegistryReadOk(lines), RegistryRead(lines)),
                      index |-> ReadResult(IndexReadOk(lines), IndexRead(lines))]
        /\ UNCHANGED << allowed_registries, calls, call, pre, registry_lock, seen,
                        FsVars, LocalVars, pc, result, faulted, faults, successes,
                        supplied, prev, dropped, upload >>

SpecReaders == Init /\ [][ReadBoth]_vars

\* ------------------------------------------------------------------ download

\* A path string is the sequence of its pieces between the '/' characters:
\* "/crates/a" is << "", "crates", "a" >> and the empty string is << "" >>.
\* The request paths are a '/' followed by up to MaxSegments pieces.
MaxSegments == 4
PathSegments == {"", "..", "crates", "srv", "secret", "foo"}
RECURSIVE SegmentLists(_)
SegmentLists(k) ==
    IF k = 0 THEN { << >> }
    ELSE SegmentLists(k - 1) \cup
            { Append(s, c) : s \in SegmentLists(k - 1), c \in PathSegments }
RequestPaths == { << "" >> \o s : s \in SegmentLists(MaxSegments) \ { << >> } }

\* The disk of the server: the registry in /srv with its crate directory
\* /srv/crates holding the blob foo, the file /srv/secret beside the crate
\* directory and the file /secret. Absolute paths, as lists of names.
DiskDirs == { << >>, << "srv" >>, << "srv", "crates" >> }
DiskFiles == { << "srv", "crates", "foo" >>, << "srv", "secret" >>, << "secret" >> }
\* Registry::crate_dir(): the root joined with the configured crate_dir.
CrateDirPath == << "srv", "crates" >>

\* str::strip_prefix("/crates/") of the request path (server.rs:11): Some when
\* the path starts with "/crates/", and then the rest of the string.
HasCratesPrefix(uri) == Len(uri) >= 3 /\ uri[1] = "" /\ uri[2] = "crates"
strip_prefix(uri) == SubSeq(uri, 3, Len(uri))

\* Path::is_absolute on Unix: the string starts with '/'.
is_absolute(path) == Len(path) >= 2 /\ path[1] = ""
\* Path::components: the names and the ".." of a path, repeated and trailing
\* separators dropped.
components(path) == SelectSeq(path, LAMBDA c : c # "")
\* PathBuf::join (server.rs:26): an absolute path replaces the base, any other
\* path is appended to it; ".." components are kept as they are.
join(base, path) ==
    IF is_absolute(path) THEN components(path) ELSE base \o components(path)

\* The kernel's walk of an absolute path from the root: ".." steps to the
\* parent (the root is its own parent), a name steps into the directory.
Parent(dir) == IF dir = << >> THEN << >> ELSE SubSeq(dir, 1, Len(dir) - 1)
RECURSIVE Walk(_, _)
Walk(cur, path) ==
    IF path = << >> THEN [kind |-> "Ok", at |-> cur]
    ELSE IF cur \in DiskFiles THEN [kind |-> "Other", at |-> cur]
    ELSE IF cur \notin DiskDirs THEN [kind |-> "NotFound", at |-> cur]
    ELSE IF Head(path) = ".." THEN Walk(Parent(cur), Tail(path))
    ELSE Walk(Append(cur, Head(path)), Tail(path))
\* std::fs::read (server.rs:27): the file the path leads to, NotFound for a
\* missing one, another error for a directory.
fs_read(path) ==
    LET end == Walk(<< >>, path) IN
    IF end.kind # "Ok" THEN end
    ELSE IF end.at \in DiskFiles THEN end
    ELSE IF end.at \in DiskDirs THEN [kind |-> "Other", at |-> end.at]
    ELSE [kind |-> "NotFound", at |-> end.at]

\* server::get_crate: the method check, then the read of crate_dir joined with
\* the rest of the request path; the response carries the bytes of the file
\* that was read.
get_crate(path, method) ==
    IF ~check_supported_method(method, AllowedMethods("download"))
    THEN [status |-> 405, file |-> << >>]
    ELSE LET data == fs_read(join(CrateDirPath, path)) IN
         CASE data.kind = "Ok" -> [status |-> 200, file |-> data.at]
           [] data.kind = "NotFound" -> [status |-> 404, file |-> << >>]
           [] OTHER -> [status |-> 500, file |-> << >>]

\* server::handle_request, the branch of /crates/: every other path is routed
\* to the API or answered 404 without a read of the crate directory.
handle_request(uri, method) ==
    IF HasCratesPrefix(uri) THEN get_crate(strip_prefix(uri), method)
    ELSE [status |-> 0, file |-> << >>]

GetCrate ==
    /\ input = NoInput
    /\ \E uri \in RequestPaths : \E method \in Methods :
        /\ input' = [op |-> "download", uri |-> uri, method |-> method]
        /\ output' = [kind |-> "download"] @@ handle_request(uri, method)
        /\ UNCHANGED << allowed_registries, calls, call, pre, registry_lock, seen,
                        FsVars, LocalVars, pc, result, faulted, faults, successes,
                        supplied, prev, dropped, upload >>

SpecDownload == Init /\ [][GetCrate]_vars

\* ------------------------------------------------------------------ path resolver

\* The characters of the names handed to the resolver: a, B, - and e with an
\* acute accent (U+00E9), and the names of up to MaxNameChars of them.
PathChars == {97, 66, 45, 233}
RECURSIVE Strings(_)
Strings(k) ==
    IF k = 0 THEN { << >> }
    ELSE Strings(k - 1) \cup
            { s \o Utf8(c) : s \in Strings(k - 1), c \in PathChars }
PathNames == Strings(MaxNameChars)

\* The operations that resolve the index path of the name they are given.
Resolvers == {"read_index", "add_crate_with_metadata", "yank_crate", "unyank_crate"}

\* One of them resolves a name: the empty name panics (registry.rs:269), any
\* other gives its path.
Resolve ==
    \E op \in Resolvers : \E name \in PathNames :
        /\ input = NoInput
        /\ input' = [op |-> op, name |-> name]
        /\ output' = IF index_path_rel_panics(name)
                     THEN [kind |-> "panic", path |-> << >>]
                     ELSE [kind |-> "path", path |-> index_path_rel(name)]
        /\ UNCHANGED << allowed_registries, calls, call, pre, registry_lock, seen,
                        FsVars, LocalVars, pc, result, faulted, faults, successes,
                        supplied, prev, dropped, upload >>

SpecPath == Init /\ [][Resolve]_vars

\* ------------------------------------------------------------------ properties

Done(w) == pc[w] = "done"
Published(w) == Done(w) /\ call[w].op = "publish"
Yanking(w) == Done(w) /\ call[w].op \in {"yank", "unyank"}
IsError(r) == r \notin {"none", "Ok", "Ok(true)", "Ok(false)"}
TargetFile(w) == index_dir[IndexPathOf(w)]

\* C1: a publish that returns an error leaves the number of commits on HEAD
\* and the entries a fresh read_index returns as they were before the call.
C1_FailedPublishLeavesNoTrace ==
    \A w \in Workers :
        (Published(w) /\ IsError(result[w]))
            => /\ head_count = pre[w].head_count
               /\ Entries(TargetFile(w)) = Entries(pre[w].file)

\* C2: once a call has returned, the lines of every index file in the working
\* tree are those of the file in the tree of HEAD.
C2_WorkingTreeIsHead ==
    \A w \in Workers :
        Done(w) => \A p \in IndexPaths : index_dir[p].lines = head_tree[p].lines

\* The entries of an index file, and the blob an entry names.
FileEntries(p) == Entries(index_dir[p])
BlobOf(e) == crate_dir[crate_path_rel(e.name, e.version)]
Matching(entries, version) == { i \in 1..Len(entries) : entries[i].version = version }
Occurrences(lines, e) == Cardinality({ i \in 1..Len(lines) : lines[i] = EntryToJson(e) })

BothPublished(w, v) ==
    /\ w # v
    /\ Published(w) /\ Published(v)
    /\ IndexPathOf(w) = IndexPathOf(v)
    /\ pre[w].busy = {} /\ pre[v].busy \subseteq {w}
    /\ pre[v].id = pre[w].id + 1 /\ calls = pre[v].id
    /\ faults = 0
    /\ \A u \in {w, v} : /\ ~IsDuplicate(Entries(pre[u].file), call[u].version)
                         /\ ~pre[u].blob.exists

\* C4: concurrent publishes of distinct versions of one crate all succeed and
\* the line of each is in the file exactly once; of concurrent publishes of
\* the same name and version exactly one succeeds and the other fails as a
\* duplicate version.
C4_PublishesSerialize ==
    \A w, v \in Workers :
        BothPublished(w, v) =>
            IF call[w].version # call[v].version
            THEN /\ result[w] = "Ok" /\ result[v] = "Ok"
                 /\ \A u \in {w, v} : Occurrences(TargetFile(u).lines, call[u].metadata) = 1
            ELSE /\ {result[w], result[v]} = {"Ok", "DuplicateVersion"}
                 /\ result[w] # result[v]
                 /\ Cardinality(Matching(Entries(TargetFile(w)), call[w].version)) = 1

C4_Witness ==
    \E w, v \in Workers :
        /\ BothPublished(w, v)
        /\ call[w].version = call[v].version
        /\ pre[v].busy = {w}
        /\ result[w] = "DuplicateVersion" /\ result[v] = "Ok"
        /\ Len(TargetFile(w).lines) = 2

\* C5 as claimed: in every state the blob of every entry of every index file
\* exists and its SHA-256 is the entry's cksum, whichever way the entry was
\* published.
C5_EveryChecksumIsBlobDigest ==
    \A p \in IndexPaths : \A i \in 1..Len(FileEntries(p)) :
        LET e == FileEntries(p)[i]
        IN  /\ BlobOf(e).exists
            /\ Len(BlobOf(e).bytes) = 1
            /\ compute_sha256_hex(BlobOf(e).bytes[1]) = e.checksum_sha256

\* C5 amended: the blob of every entry exists and holds the published data;
\* its SHA-256 is the entry's cksum for every entry published through
\* add_crate or the HTTP handler, or through a direct call whose metadata
\* carries the checksum of the data.
C5_ComputedChecksumIsBlobDigest ==
    \A p \in IndexPaths : \A i \in 1..Len(FileEntries(p)) :
        LET e == FileEntries(p)[i]
        IN  /\ BlobOf(e).exists
            /\ Len(BlobOf(e).bytes) = 1
            /\ crate_path_rel(e.name, e.version) \notin supplied
                  => compute_sha256_hex(BlobOf(e).bytes[1]) = e.checksum_sha256

C5_Witness ==
    \E w \in Workers :
        /\ Yanking(w) /\ result[w] = "Ok(true)"
        /\ \E i, j \in 1..Len(Entries(TargetFile(w))) :
              LET e == Entries(TargetFile(w))[i]
                  f == Entries(TargetFile(w))[j]
              IN  /\ crate_path_rel(e.name, e.version) \notin supplied
                  /\ compute_sha256_hex(BlobOf(e).bytes[1]) = e.checksum_sha256
                  /\ crate_path_rel(f.name, f.version) \in supplied

\* C6: a blob file that exists is never written again, by no step of any
\* operation, and a publish that started when its blob path existed does not
\* succeed.
C6_BlobWrittenOnce ==
    /\ [][\A p \in CratePaths : crate_dir[p].exists => crate_dir'[p] = crate_dir[p]]_vars
    /\ [](\A w \in Workers : (Published(w) /\ pre[w].blob.exists) => IsError(result[w]))

C6_Witness ==
    \E w \in Workers :
        /\ Published(w) /\ pre[w].blob.exists
        /\ result[w] = "CreateFailed"
        /\ crate_dir[CratePathOf(w)].bytes # write_all(call[w].data)

\* C7: the number of commits on HEAD is 1 plus the number of calls that
\* returned Ok(()) or Ok(true); a call that returned an error or false added
\* no commit, and no call added more than one.
C7_OneCommitPerSuccess ==
    /\ head_count = 1 + successes
    /\ \A w \in Workers :
          Done(w) => head_count = pre[w].head_count
                        + (IF result[w] \in {"Ok", "Ok(true)"} THEN 1 ELSE 0)

C7_Witness ==
    /\ head_count = 3
    /\ \E w \in Workers : Yanking(w) /\ result[w] = "Ok(false)"

\* C8: a yank of a published version that is not yanked returns true, and the
\* unyank that follows it returns true and leaves the index file with the
\* lines it had before the yank (when the environment fails no step).
C8_YankUnyankIsIdentity ==
    \A w \in Workers :
        /\ (Yanking(w) /\ call[w].op = "yank" /\ faults = 0
              /\ Matching(Entries(pre[w].file), call[w].version) # {}
              /\ \A i \in Matching(Entries(pre[w].file), call[w].version) :
                    ~Entries(pre[w].file)[i].yanked)
              => result[w] = "Ok(true)"
        /\ (Yanking(w) /\ call[w].op = "unyank" /\ faults = 0
              /\ prev[w].call.op = "yank"
              /\ prev[w].call.name = call[w].name
              /\ prev[w].call.version = call[w].version
              /\ \A i \in Matching(Entries(prev[w].before), call[w].version) :
                    ~Entries(prev[w].before)[i].yanked)
              => /\ result[w] = "Ok(true)"
                 /\ TargetFile(w) = prev[w].before

C8_Witness ==
    \E w \in Workers :
        /\ Yanking(w) /\ call[w].op = "unyank" /\ result[w] = "Ok(true)"
        /\ prev[w].call.op = "yank"
        /\ prev[w].call.name = call[w].name
        /\ prev[w].call.version = call[w].version
        /\ Len(prev[w].before.lines) > 0
        /\ TargetFile(w) = prev[w].before
        /\ pre[w].file # prev[w].before

\* The call of w is a yank of a version whose entries were all yanked when it
\* started, or an unyank of one whose entries were all not yanked.
AlreadyInState(w) ==
    /\ call[w].op \in {"yank", "unyank"}
    /\ pre[w].file.exists
    /\ Matching(Entries(pre[w].file), call[w].version) # {}
    /\ \A i \in Matching(Entries(pre[w].file), call[w].version) :
          Entries(pre[w].file)[i].yanked = Target(call[w].op)

\* C9: such a call never truncates or writes the index file and creates no
\* commit: at its return the file and HEAD are as they were, and it returns
\* false unless the environment failed a step.
C9_NoChangeWhenAlreadyInState ==
    \A w \in Workers :
        AlreadyInState(w) =>
            /\ pc[w] \in {"open", "lock", "done"}
            /\ TargetFile(w) = pre[w].file
            /\ head_count = pre[w].head_count
            /\ (Done(w) /\ ~faulted[w]) => result[w] = "Ok(false)"

C9_Witness ==
    \E w \in Workers :
        /\ AlreadyInState(w) /\ Done(w) /\ result[w] = "Ok(false)"
        /\ call[w].op = "yank"
        /\ Len(pre[w].file.lines) = 1

\* C10: a yank or unyank of a version without an entry in an existing index
\* file fails as version-not-found, one of a crate without an index file
\* fails as crate-not-found and does not create the file; the index file and
\* HEAD are unchanged in both cases.
C10_NotFoundChangesNothing ==
    \A w \in Workers :
        (Yanking(w) /\ Matching(Entries(pre[w].file), call[w].version) = {}) =>
            /\ TargetFile(w) = pre[w].file
            /\ head_count = pre[w].head_count
            /\ ~faulted[w] =>
                  result[w] = IF pre[w].file.exists THEN "VersionNotFound" ELSE "CrateNotFound"

C10_Witness ==
    \E w \in Workers :
        /\ Yanking(w) /\ result[w] = "VersionNotFound"
        /\ Len(pre[w].file.lines) = 1
        /\ head_count = 2

\* C11: a yank or unyank that returned true left the file with one parseable
\* line per entry it had before, in the same order; the entries of the
\* requested version have yanked set to the target state and are otherwise
\* unchanged, and every other entry is unchanged.
C11_YankRewritesInOrder ==
    \A w \in Workers :
        (Yanking(w) /\ result[w] = "Ok(true)") =>
            LET before == Entries(pre[w].file)
                after == Entries(TargetFile(w))
            IN  /\ RegistryReadOk(TargetFile(w).lines)
                /\ Len(TargetFile(w).lines) = Len(before)
                /\ Len(after) = Len(before)
                /\ \A i \in 1..Len(before) :
                      IF before[i].version = call[w].version
                      THEN after[i] = [before[i] EXCEPT !.yanked = (call[w].op = "yank")]
                      ELSE after[i] = before[i]

C11_Witness ==
    \E w \in Workers :
        /\ Yanking(w) /\ result[w] = "Ok(true)" /\ call[w].op = "yank"
        /\ Len(Entries(pre[w].file)) = 2
        /\ Entries(TargetFile(w))[1].version = call[w].version
        /\ Entries(TargetFile(w))[1].yanked
        /\ ~Entries(TargetFile(w))[2].yanked
        /\ Len(Entries(TargetFile(w))[2].dependencies) = 1

\* Some dependency of the entry names a registry outside the allowed list.
HasDisallowed(metadata) ==
    \E j \in 1..Len(metadata.dependencies) :
        /\ metadata.dependencies[j].registry # << >>
        /\ metadata.dependencies[j].registry[1] \notin allowed_registries

\* C12: a publish of an entry with a dependency on a registry outside
\* allowed_registries never gets past its first step and holds no lock; the
\* index file (existing or not), the blob and the commit count stay as they
\* were and the call returns the disallowed-registry error. No entry of any
\* index file has a dependency on a registry outside allowed_registries.
C12_DisallowedRegistryHasNoEffect ==
    /\ \A w \in Workers :
          (call[w].op = "publish" /\ HasDisallowed(call[w].metadata)) =>
              /\ pc[w] \in {"open", "done"}
              /\ w \notin file_lock[IndexPathOf(w)]
              /\ TargetFile(w) = pre[w].file
              /\ crate_dir[CratePathOf(w)] = pre[w].blob
              /\ head_count = pre[w].head_count
              /\ Done(w) => result[w] = "DisallowedDependencyRegistry"
    /\ \A p \in IndexPaths : \A i \in 1..Len(FileEntries(p)) :
          ~HasDisallowed(FileEntries(p)[i])

C12_Witness ==
    \E w \in Workers :
        /\ Published(w) /\ HasDisallowed(call[w].metadata)
        /\ result[w] = "DisallowedDependencyRegistry"
        /\ ~pre[w].file.exists /\ ~TargetFile(w).exists
        /\ \E p \in IndexPaths : Len(FileEntries(p)) > 0

\* C13: a publish of a version that had an entry in the crate's index file
\* when the call started leaves the file, the blob and the commit count as
\* they were, and returns the duplicate-version error unless the environment
\* failed a step.
C13_DuplicateChangesNothing ==
    \A w \in Workers :
        (Published(w) /\ ~HasDisallowed(call[w].metadata)
            /\ Matching(Entries(pre[w].file), call[w].version) # {}) =>
            /\ TargetFile(w) = pre[w].file
            /\ crate_dir[CratePathOf(w)] = pre[w].blob
            /\ head_count = pre[w].head_count
            /\ ~faulted[w] => result[w] = "DuplicateVersion"

C13_Witness ==
    \E w \in Workers :
        /\ Published(w) /\ result[w] = "DuplicateVersion"
        /\ Len(pre[w].file.lines) = 2
        /\ Entries(pre[w].file)[1].version = call[w].version
        /\ pre[w].blob.exists /\ pre[w].blob.bytes # write_all(call[w].data)
        /\ head_count = 3

\* The publish of w returned an error after it had written its blob.
FailedAfterBlob(w) ==
    /\ Published(w) /\ IsError(result[w])
    /\ ~pre[w].blob.exists
    /\ crate_dir[CratePathOf(w)] = Blob(write_all(call[w].data))

\* C14: after a publish that fails once its blob is written, the blob is
\* there and the index file has no entry of that version; a publish that
\* starts with the blob on disk and no entry fails at the create of the blob
\* and changes neither the index file nor the commit count.
C14_FailureAfterBlobLeavesNoEntry ==
    \A w \in Workers :
        /\ FailedAfterBlob(w) =>
              Matching(Entries(TargetFile(w)), call[w].version) = {}
        /\ (Published(w) /\ pre[w].blob.exists /\ ~faulted[w]
               /\ ~HasDisallowed(call[w].metadata)
               /\ Matching(Entries(pre[w].file), call[w].version) = {}) =>
              /\ result[w] = "CreateFailed"
              /\ Entries(TargetFile(w)) = Entries(pre[w].file)
              /\ head_count = pre[w].head_count

\* The names and versions of the entries, in order.
Pairs(entries) == [i \in 1..Len(entries) |-> << entries[i].name, entries[i].version >>]
IsPrefix(s, t) == Len(s) <= Len(t) /\ \A i \in 1..Len(s) : s[i] = t[i]

\* C15: when a call has returned, the names and versions of the entries its
\* index file had when the call started are a prefix of those it has now;
\* a publish that returned Ok added exactly one, at the end.
C15_EntriesOnlyGrowAtEnd ==
    \A w \in Workers :
        Done(w) =>
            /\ IsPrefix(Pairs(Entries(pre[w].file)), Pairs(Entries(TargetFile(w))))
            /\ (Published(w) /\ result[w] = "Ok") =>
                  Pairs(Entries(TargetFile(w))) =
                      Append(Pairs(Entries(pre[w].file)), << call[w].name, call[w].version >>)

\* The Cargo layout of a name: bytes 65..90 lowered, every other byte as it is.
CargoLower(bytes) ==
    [i \in 1..Len(bytes) |-> IF bytes[i] \in 65..90 THEN bytes[i] + 32 ELSE bytes[i]]
CargoLayout(n) ==
    CargoLower(CASE Len(n) = 1 -> << 49, 47 >> \o n
                 [] Len(n) = 2 -> << 50, 47 >> \o n
                 [] Len(n) = 3 -> << 51, 47, n[1], 47 >> \o n
                 [] OTHER -> << n[1], n[2], 47, n[3], n[4], 47 >> \o n)

\* C16: the path resolved for a non-empty name is the Cargo layout of the
\* name's bytes: 1/<n>, 2/<n>, 3/<n[0]>/<n> or <n[0..2]>/<n[2..4]>/<n>, with
\* the ASCII uppercase letters lowered and every other byte unchanged.
C16_PathIsCargoLayout ==
    output.kind = "path" => output.path = CargoLayout(input.name)

\* C17: resolving the path of the empty name returns the InvalidName error
\* value to the caller.
C17_EmptyNameIsInvalidName ==
    (input.op # "none" /\ input.name = << >>) => output.kind = "Err(InvalidName)"

\* The caller's call runs in the server, under its lock of the Registry.
InServer(w) == w \in registry_lock
\* The call has not returned yet.
Running(w) == pc[w] \notin {"idle", "done"}
\* The call has read its index file and has not returned yet.
PastLock(w) ==
    /\ Mutating(call[w])
    /\ pc[w] \in {"blob", "append", "truncate", "write", "commit", "stage", "tip"}

\* C18: of the calls that run in the server at most one is a publish, yank
\* or unyank, and a publish, yank or unyank (of any process) that has read
\* its index file and has not returned yet is the only holder of the lock of
\* that file.
C18_WritersAreExclusive ==
    /\ \A w, v \in Workers :
          (InServer(w) /\ InServer(v) /\ Mutating(call[w]) /\ Mutating(call[v])) => w = v
    /\ \A w \in Workers :
          PastLock(w) => file_lock[IndexPathOf(w)] = {w}

C18_Witness ==
    \E w, v \in Workers :
        /\ InServer(w) /\ call[w].op = "yank" /\ pc[w] = "write"
        /\ file_lock[IndexPathOf(w)] = {w}
        /\ ~InServer(v) /\ PastLock(v) /\ pc[v] = "commit"

\* Of the calls other than r and w none is in progress.
OnlyTwo(r, w) == \A u \in Workers \ {r, w} : pc[u] = "idle"

\* C19 as claimed: while a publish, yank or unyank is in progress a read-only
\* request to the server can start (whatever crate it is about), and a
\* read_index of a crate with another index file gets its lock.
C19_ReadersNeverWait ==
    \A r, w \in Workers :
        (r # w /\ Mutating(call[w]) /\ Running(w) /\ OnlyTwo(r, w)) =>
            /\ pc[r] = "idle" => ReadAvailable(registry_lock)
            /\ (pc[r] = "lock" /\ call[r].op = "read"
                   /\ IndexPathOf(r) # IndexPathOf(w))
                  => SharedAvailable(file_lock[IndexPathOf(r)])

\* C19 amended: a read-only request never runs in the server together with
\* a publish, yank or unyank of the server; while a publish, yank or unyank
\* of another process is in progress, a read-only request to the server can
\* start and a read_index of a crate with another index file gets its lock.
C19_ReadersWaitForServerWriters ==
    /\ \A r, w \in Workers :
          (r # w /\ InServer(r) /\ InServer(w) /\ ~Mutating(call[r])) => ~Mutating(call[w])
    /\ \A r, w \in Workers :
          (r # w /\ Mutating(call[w]) /\ Running(w) /\ ~InServer(w) /\ OnlyTwo(r, w)) =>
              /\ pc[r] = "idle" => ReadAvailable(registry_lock)
              /\ (pc[r] = "lock" /\ call[r].op = "read"
                     /\ IndexPathOf(r) # IndexPathOf(w))
                    => SharedAvailable(file_lock[IndexPathOf(r)])

C19_Witness ==
    \E r, w \in Workers :
        /\ r # w
        /\ Mutating(call[w]) /\ PastLock(w) /\ ~InServer(w)
        /\ InServer(r) /\ call[r].op = "read" /\ Done(r) /\ result[r] = "Ok(entries)"
        /\ w \in pre[r].busy
        /\ IndexPathOf(r) # IndexPathOf(w)
        /\ Len(seen[r]) = 1

ProcessOf(w) == IF InServer(w) THEN 0 ELSE w

\* C21: no process holds two locks on one index file at the same time: two
\* callers that hold the lock of the same file run in different processes.
C21_OneLockPerPathPerProcess ==
    \A p \in IndexPaths : \A w, v \in file_lock[p] :
        ProcessOf(w) = ProcessOf(v) => w = v

ResponseOf(w) == Response(call[w], result[w], seen[w])

\* The kinds of the failures of the Registry.
ErrorKind(r) ==
    CASE r = "DisallowedDependencyRegistry" -> "validation"
      [] r = "DuplicateVersion" -> "conflict"
      [] r \in {"CrateNotFound", "VersionNotFound"} -> "not-found"
      [] r = "ParseFailed" -> "internal"
      [] OTHER -> "io"

\* C26: a publish, yank or unyank request whose registry call failed is
\* answered with the error envelope and status 200 when the failure is a
\* validation, conflict or not-found failure, and with status 500, a plain
\* text body and Cache-Control: no-store when it is an I/O or internal one.
C26_ErrorsAnsweredByKind ==
    \A w \in Workers :
        (IsRequest(w) /\ Done(w) /\ Mutating(call[w]) /\ IsError(result[w])) =>
            IF ErrorKind(result[w]) \in {"validation", "conflict", "not-found"}
            THEN /\ ResponseOf(w).status = 200
                 /\ ResponseOf(w).body.kind = "errors"
            ELSE /\ ResponseOf(w).status = 500
                 /\ ResponseOf(w).body.kind = "text"
                 /\ ResponseOf(w).cache_control = "no-store"

\* The endpoint a request went to.
EndpointOf(c) == IF c.op = "rejected" THEN c.via ELSE c.op

\* C27: a request to the publish, yank or unyank endpoint with a method the
\* endpoint does not allow never becomes a registry call: it is answered
\* with status 405 in a step that takes no lock and leaves the index, the
\* blobs and HEAD as they are. A yank or unyank request with the allowed method is answered
\* with {"ok":true} and status 200 when it returned true and when it returned
\* false.
C27_MethodCheckedBeforeMutation ==
    /\ [](\A w \in Workers :
            /\ (IsRequest(w) /\ EndpointOf(call[w]) \in {"publish", "yank", "unyank"}
                   /\ call[w].method \notin AllowedMethods(EndpointOf(call[w]))) =>
                  /\ call[w].op = "rejected" /\ Done(w)
                  /\ ResponseOf(w).status = 405
                  /\ w \notin registry_lock
                  /\ \A p \in IndexPaths : w \notin file_lock[p]
            /\ (IsRequest(w) /\ Yanking(w) /\ result[w] \in {"Ok(true)", "Ok(false)"}) =>
                  /\ ResponseOf(w).status = 200
                  /\ ResponseOf(w).body = Body("ok", "true", << >>))
    /\ [][\A w \in Workers :
            (call[w].op # "rejected" /\ call'[w].op = "rejected") => UNCHANGED FsVars]_vars

C27_Witness ==
    \E w, v \in Workers :
        /\ Done(w) /\ call[w].op = "rejected" /\ call[w].via = "yank" /\ call[w].method = "PUT"
        /\ IsRequest(v) /\ Yanking(v) /\ call[v].op = "unyank" /\ result[v] = "Ok(false)"
        /\ Len(TargetFile(v).lines) = 1

\* The version the download of w asks for had an entry when it started.
Downloading(w) ==
    /\ call[w].op = "download"
    /\ Matching(Entries(pre[w].file), call[w].version) # {}

\* C29: a download of a version with an entry in the index, yanked or not,
\* returns the bytes of its blob (as the body of the answer to GET) unless
\* the environment fails the read; a download takes no lock of an index
\* file, reads no entries, and its step changes neither the index files nor
\* HEAD nor the staged content.
C29_DownloadServesBlobOnly ==
    /\ [](\A w \in Workers :
            /\ call[w].op = "download" =>
                  /\ index[w] = << >>
                  /\ \A p \in IndexPaths : w \notin file_lock[p]
            /\ (Downloading(w) /\ Done(w) /\ ~faulted[w]) =>
                  /\ result[w] = "Ok(data)"
                  /\ seen[w] = crate_dir[CratePathOf(w)].bytes
                  /\ Len(seen[w]) = 1
                  /\ call[w].method = "GET" => ResponseOf(w).body.data = seen[w])
    /\ [][\A w \in Workers :
            (call[w].op = "download" /\ pc[w] = "open" /\ pc'[w] = "done")
                => UNCHANGED << index_dir, head_tree, head_count, git_index >>]_vars

C29_Witness ==
    \E w \in Workers :
        /\ Downloading(w) /\ Done(w) /\ result[w] = "Ok(data)"
        /\ call[w].method = "GET"
        /\ \A i \in Matching(Entries(pre[w].file), call[w].version) :
              Entries(pre[w].file)[i].yanked
        /\ ResponseOf(w).status = 200
        /\ ResponseOf(w).body.data = write_all(Tarball(call[w].name, call[w].version, 1))

\* The positions of a mutation, in the order of the code.
Stage(p) ==
    CASE p = "open" -> 1
      [] p = "lock" -> 2
      [] p \in {"blob", "truncate"} -> 3
      [] p \in {"append", "write"} -> 4
      [] p = "commit" -> 5
      [] p = "stage" -> 6
      [] p = "tip" -> 7
      [] OTHER -> 8

\* C23: every step of a publish, yank or unyank moves the call forward; the
\* blob of a publish is written by the holder of the index file's lock
\* while the file is still as it was read; the lines of an index file
\* change only in a step of the holder of its lock that has passed the read
\* (and, for publish, the blob); a commit is created only by a call that
\* holds the lock and has written the file, and the tree it commits has the
\* file as written; the lock is kept until the step that creates the commit.
C23_StepsInOrder ==
    [][\A w \in Workers :
          Mutating(call[w]) =>
            /\ (pc[w] # "done" /\ pc'[w] # pc[w]) => Stage(pc'[w]) > Stage(pc[w])
            /\ (pc[w] = "blob" /\ crate_dir' # crate_dir) =>
                  /\ w \in file_lock[IndexPathOf(w)]
                  /\ Entries(TargetFile(w)) = index[w]
            /\ (pc'[w] # pc[w] /\ index_dir'[IndexPathOf(w)].lines # TargetFile(w).lines) =>
                  /\ pc[w] \in {"append", "truncate", "write"}
                  /\ w \in file_lock[IndexPathOf(w)]
                  /\ call[w].op = "publish" =>
                        crate_dir[CratePathOf(w)] = Blob(write_all(call[w].data))
            /\ (pc'[w] # pc[w] /\ head_count' # head_count) =>
                  /\ pc[w] = "tip"
                  /\ w \in file_lock[IndexPathOf(w)]
                  /\ Entries(TargetFile(w)) = IF call[w].op = "publish"
                                               THEN Append(index[w], call[w].metadata)
                                               ELSE index[w]
                  /\ head_tree'[IndexPathOf(w)] = TargetFile(w)
            /\ (pc[w] \in {"blob", "append", "truncate", "write", "commit", "stage", "tip"}
                   /\ pc'[w] \notin {"idle", "done"}) =>
                  w \in file_lock'[IndexPathOf(w)]]_vars
    /\ [][\A p \in IndexPaths :
            index_dir'[p].lines # index_dir[p].lines =>
                \E w \in Workers : /\ Mutating(call[w]) /\ IndexPathOf(w) = p
                                   /\ pc'[w] # pc[w]
                                   /\ file_lock[p] = {w}]_vars

C23_Witness ==
    \E w, v \in Workers :
        /\ w # v
        /\ Published(w) /\ result[w] = "Ok" /\ pre[w].busy = {v}
        /\ call[v].op = "yank" /\ Done(v) /\ result[v] = "Ok(true)"
        /\ head_count = 4

\* The positions of a publish whose blob is written.
AfterBlob == {"append", "commit", "stage", "tip"}

\* The publish of w has written its blob.
WroteBlob(w) ==
    /\ call[w].op = "publish"
    /\ ~pre[w].blob.exists
    /\ crate_dir[CratePathOf(w)] = Blob(write_all(call[w].data))

\* C22: no step, the loss of the client included, takes a publish request
\* whose blob is written anywhere but on to its next position; such a
\* request reaches its return; and one whose client went away after the
\* blob was written has, unless the environment failed a step, returned Ok
\* with its line in the index file and its commit on HEAD.
C22_DroppedPublishCompletes ==
    /\ [][\A w \in Workers :
            (IsRequest(w) /\ call[w].op = "publish" /\ pc[w] \in AfterBlob) =>
                /\ pc'[w] \in AfterBlob \cup {"done"}
                /\ call'[w] = call[w]]_vars
    /\ \A w \in Workers :
          (call[w].op = "publish" /\ pc[w] \in AfterBlob) ~> Done(w)
    /\ [](\A w \in Workers :
            (Done(w) /\ dropped[w] \in AfterBlob /\ WroteBlob(w) /\ faults = 0) =>
                /\ result[w] = "Ok"
                /\ Occurrences(TargetFile(w).lines, call[w].metadata) = 1
                /\ head_count = pre[w].head_count + 1
                /\ head_tree[IndexPathOf(w)] = TargetFile(w))

C22_Witness ==
    \E w \in Workers :
        /\ Done(w) /\ dropped[w] = "append" /\ WroteBlob(w)
        /\ result[w] = "Ok"
        /\ head_count = 3

\* C30: every line of every index file has the keys vers, deps and cksum,
\* every dependency of it has the key req, and the line decodes to an entry
\* that encodes to the same line.
C30_CargoFieldNames ==
    \A p \in IndexPaths : \A i \in 1..Len(index_dir[p].lines) :
        LET line == index_dir[p].lines[i]
        IN  NonEmpty(line) =>
              /\ {"vers", "deps", "cksum"} \subseteq JsonKeys(line)
              /\ \A j \in 1..Len(JsonGet(line, "deps")) :
                    "req" \in JsonKeys(JsonGet(line, "deps")[j])
              /\ EntryParses(line)
              /\ EntryToJson(from_json(line)) = line

\* C25: the entry made from the metadata of a publish request has one
\* dependency per dependency of the request, in the same order; a renamed
\* one has the rename as its name and the wire name as its package, any
\* other the wire name as its name and no package; the other fields of the
\* dependency are those of the request; the entry has the name, version,
\* features and links of the request, the checksum of the data, and is not
\* yanked.
C25_RenameSwapped ==
    input.op = "into_index_entry" =>
        LET meta == input.meta
            entry == output.entry
        IN  /\ Len(entry.dependencies) = Len(meta.dependencies)
            /\ \A i \in 1..Len(meta.dependencies) :
                  LET wire == meta.dependencies[i]
                      dep == entry.dependencies[i]
                  IN  /\ IF wire.explicit_name_in_toml # << >>
                         THEN /\ dep.name = wire.explicit_name_in_toml[1]
                              /\ dep.package = << wire.name >>
                         ELSE /\ dep.name = wire.name
                              /\ dep.package = << >>
                      /\ dep.version = wire.version
                      /\ dep.features = wire.features
                      /\ dep.optional = wire.optional
                      /\ dep.default_features = wire.default_features
                      /\ dep.target = wire.target
                      /\ dep.kind = wire.kind
                      /\ dep.registry = wire.registry
            /\ entry.yanked = FALSE
            /\ entry.name = meta.name /\ entry.version = meta.version
            /\ entry.features = meta.features /\ entry.links = meta.links
            /\ entry.checksum_sha256 = input.crate_sha256

C25_Witness ==
    /\ input.op = "into_index_entry"
    /\ Len(output.entry.dependencies) = 2
    /\ output.entry.dependencies[1].name = "alias"
    /\ output.entry.dependencies[1].package = << "serde" >>
    /\ output.entry.dependencies[2].name = "serde"
    /\ output.entry.dependencies[2].package = << >>
    /\ output.entry.dependencies[2].registry = << CratesIo >>

\* The body is framed: four bytes of a length L1, L1 bytes, four bytes of a
\* length L2 and exactly L2 bytes. The L1 bytes and the L2 bytes of a framed
\* body.
Framed(body) ==
    /\ Len(body) >= 8
    /\ Len(body) >= 8 + ReadLength(body)
    /\ Len(body) = 8 + ReadLength(body)
                     + ReadLength(SubSeq(body, 5 + ReadLength(body), 8 + ReadLength(body)))
MetadataOf(body) == SubSeq(body, 5, 4 + ReadLength(body))
BlobBytesOf(body) == SubSeq(body, 9 + ReadLength(body), Len(body))

\* The byte strings that are JSON, of those that can be in the metadata
\* place of a body.
IsJson(bytes) == bytes \in {EmptyObject, MetaDoc}

\* C24 as claimed: a body is accepted exactly when it is framed and its
\* metadata bytes are JSON; the blob returned is the last L2 bytes.
C24_AcceptsFramedJson ==
    input.op = "parse_crate" =>
        /\ output.kind = "Ok" <=> (Framed(input.data) /\ IsJson(MetadataOf(input.data)))
        /\ output.kind = "Ok" => output.tarball = BlobBytesOf(input.data)

\* C24 amended: a body is accepted exactly when it is framed and its
\* metadata bytes are the JSON of a publish metadata object (with name,
\* vers, deps and features); the blob returned is the last L2 bytes.
C24_AcceptsFramedMeta ==
    input.op = "parse_crate" =>
        /\ output.kind = "Ok" <=> (Framed(input.data) /\ MetadataOf(input.data) = MetaDoc)
        /\ output.kind = "Ok" => /\ output.tarball = BlobBytesOf(input.data)
                                /\ output.meta.name = << 97 >>

C24_Witness ==
    /\ input.op = "parse_crate"
    /\ output.kind = "Ok"
    /\ Len(output.tarball) = MaxBlobLen
    /\ Len(input.data) = 8 + Len(MetaDoc) + MaxBlobLen

\* The query and the limit of the search in input, and the semver versions
\* of the crate the walk yields at position i.
QueryOf == IF input.q = << >> THEN << >> ELSE input.q[1]
LimitOf == IF input.per_page = << >> THEN 10 ELSE input.per_page[1]
SemverOf(i) ==
    LET entries == Entries(input.tree[input.walk[i]])
    IN  { VersionParse(entries[k].version)[1] :
            k \in { n \in 1..Len(entries) : VersionParse(entries[n].version) # << >> } }
Matches(i) == Contains(FileName(input.walk[i]), QueryOf) /\ SemverOf(i) # {}
MatchingCrates == { i \in 1..Len(input.walk) : Matches(i) }
Nth(k) == CHOOSE i \in MatchingCrates : Cardinality({ j \in MatchingCrates : j <= i }) = k

\* C28: a search counts in meta.total the enumerated crates whose name
\* contains the query and that have a version parsing as semver, and returns
\* the first min(total, per_page) of them in discovery order, per_page being
\* 10 when absent, each with the greatest semver version of its crate.
C28_SearchReturnsGreatestVersions ==
    output.kind = "search" =>
        /\ output.total = Cardinality(MatchingCrates)
        /\ Len(output.crates) = Min(output.total, LimitOf)
        /\ \A k \in 1..Len(output.crates) :
            /\ output.crates[k].name = FileName(input.walk[Nth(k)])
            /\ \E v \in SemverOf(Nth(k)) :
                /\ output.crates[k].max_version = VersionToString(v)
                /\ \A u \in SemverOf(Nth(k)) : ~VersionLess(v, u)

\* A search without per_page of a registry of eleven matching crates has
\* answered ten of them, the first with the greater of its two versions, which
\* is not the last published.
C28_Witness ==
    /\ output.kind = "search"
    /\ input.per_page = << >>
    /\ output.total = 11
    /\ Len(output.crates) = 10
    /\ output.crates[1].max_version = "0.10.0"
    /\ Len(Entries(input.tree[input.walk[1]])) = 2
    /\ \E i \in 1..Len(input.walk) : Contains(FileName(input.walk[i]), QueryOf) /\ ~Matches(i)

\* C32: add_commit refuses a repository that is not Clean or whose index
\* differs from the tree of HEAD (is non-empty on an unborn branch) and
\* leaves the index and HEAD as they were; when it succeeds the new commit
\* has the previous HEAD as its only parent (none on an unborn branch) and
\* HEAD is the new commit.
C32_CommitRefusesOrAppends ==
    output.kind = "add_commit" =>
        LET before == input.repo
            after == output.repo
            dirty == IF before.head = 0 THEN before.index # {}
                     ELSE before.index # before.objects[before.head].tree
        IN  /\ (before.state # "Clean" \/ dirty) =>
                /\ output.result # "Ok"
                /\ after = before
            /\ output.result = "Ok" =>
                /\ Len(after.objects) = Len(before.objects) + 1
                /\ after.head = Len(after.objects)
                /\ after.objects[after.head].parents =
                        IF before.head = 0 THEN << >> ELSE << before.head >>
                /\ SubSeq(after.objects, 1, Len(before.objects)) = before.objects

\* add_commit was asked to stage an existing file in a Clean repository
\* whose index holds a staged change against the tree of HEAD, and refused.
C32_Witness ==
    /\ output.kind = "add_commit"
    /\ output.result = "IndexDirty"
    /\ input.repo.head # 0
    /\ input.repo.state = "Clean"
    /\ input.fault = "none"
    /\ input.files = << "config.json" >>
    /\ input.worktree["config.json"] # << >>
    /\ output.repo = input.repo

\* C31: init on a root that holds palletizer.toml fails and leaves the file,
\* the index directory and the repository as they were; after a successful
\* init HEAD is a commit without parent, with the message "Initialize empty
\* registry index." and a tree that holds config.json only.
C31_InitRefusesOrStartsHistory ==
    output.kind = "init" =>
        /\ input.root.toml # << >> =>
            /\ output.result # "Ok"
            /\ output.root = input.root
        /\ output.result = "Ok" =>
            LET repo == output.root.repo
            IN  /\ repo.head # 0
                /\ repo.objects[repo.head].parents = << >>
                /\ repo.objects[repo.head].message = InitMessage
                /\ { e[1] : e \in repo.objects[repo.head].tree } = {"config.json"}

\* C33: a caller that is not inside a registry operation (it has not
\* started one, or its operation has returned, with whatever result) holds
\* the lock of no index file.
C33_NoLockBetweenCalls ==
    \A w \in Workers :
        pc[w] \in {"idle", "done"} => \A p \in IndexPaths : w \notin file_lock[p]

\* A publish failed at its commit, which is after it locked the index file
\* and wrote to it, and another caller has locked the same file since.
C33_Witness ==
    \E w, v \in Workers :
        /\ pc[w] = "done"
        /\ call[w].op = "publish"
        /\ result[w] = "CommitFailed"
        /\ v # w
        /\ call[v].name = call[w].name
        /\ v \in file_lock[IndexPathOf(w)]

\* C34: when the upload-pack handler has returned the response that streams
\* stdout, the whole body has been written to the child's stdin and stdin is
\* closed; and a child that waits in a write to a full stderr pipe gets to
\* go on, stderr being read while the request is served.
C34_StdinWrittenStderrDrained ==
    /\ []((upload.pc = "answered" /\ upload.status = 200) =>
            (upload.body = 0 /\ ~upload.stdin_open))
    /\ (upload.child = "blocked_err") ~> (upload.child # "blocked_err")

\* C35: extracting the manifest of an archive returns a value in every
\* case: an error when no entry is at the manifest path or when the entry
\* there does not parse as a manifest, the manifest otherwise; it never
\* panics.
C35_ExtractReturnsErrors ==
    (output.kind # "none" /\ input.op = "extract") =>
        LET at == { i \in 1..Len(input.archive.entries) :
                        input.archive.entries[i].path = input.path }
        IN  /\ output.kind \in {"Ok", "Err"}
            /\ at = {} => output.kind = "Err"
            /\ (\A i \in at : input.archive.entries[i].data # "manifest") =>
                    output.kind = "Err"

\* C36: after a successful publish of a crate, iter_crate_names yields the
\* lower-cased name of the crate, and the search for that name finds the
\* crate among the enumerated names, so that it counts in meta.total.
C36_PublishedCrateIsEnumerated ==
    \A w \in Workers :
        (Published(w) /\ result[w] = "Ok") =>
            LET name == make_ascii_lowercase(call[w].name)
            IN  /\ name \in iter_crate_names(index_dir)
                /\ FindCrate(index_dir, name, name) # << >>

\* C37: every started operation of every caller, a request handler of the
\* server or a run of the command-line tool, eventually returns.
C37_EveryOperationReturns ==
    \A w \in Workers : (pc[w] \notin {"idle", "done"}) ~> (pc[w] = "done")

\* A caller waits for the lock of an index file that another caller holds.
C37_Witness ==
    \E w, v \in Workers :
        /\ w # v
        /\ pc[w] = "lock"
        /\ call[v].name # << >>
        /\ index_path_rel(call[w].name) = index_path_rel(call[v].name)
        /\ v \in file_lock[IndexPathOf(w)]
        /\ call[v].op \in {"publish", "yank", "unyank"}

\* C38: the reader of yank and unyank accepts every index file that the
\* reader of read_index and publish accepts, and returns the same entries
\* in the same order.
C38_ReadersAgree ==
    (output.kind = "read" /\ output.registry.ok) =>
        /\ output.index.ok
        /\ output.index.entries = output.registry.entries

\* C39: the commit a publish creates differs from its parent in the index
\* file of the published crate only, and there by the one line of the
\* published entry added at the end.
C39_PublishCommitAddsOneLine ==
    [][\A w \in Workers :
        (pc[w] = "tip" /\ pc'[w] = "done" /\ call[w].op = "publish"
            /\ head_count' = head_count + 1) =>
            /\ \A p \in IndexPaths \ {IndexPathOf(w)} : head_tree'[p] = head_tree[p]
            /\ head_tree'[IndexPathOf(w)].lines =
                    Append(head_tree[IndexPathOf(w)].lines, EntryToJson(call[w].metadata))]_vars

\* C40: a download request answered with the bytes of a file read a file
\* that lies inside the crate directory.
C40_DownloadStaysInCrateDir ==
    (output.kind = "download" /\ output.status = 200) =>
        IsPrefix(CrateDirPath, output.file)

====
